---- MODULE Spec2Model ----
(***************************************************************************)
(* Model of the Chocolatey release plugin (relicta-tech/plugin-chocolatey): *)
(* the package-path validator, the source-URL (SSRF) validator, the         *)
(* private-address classifier, the command builder and the Execute          *)
(* dispatcher.                                                              *)
(*                                                                          *)
(* Strings whose content the code inspects (paths, URLs, keys, versions,    *)
(* arguments) are sequences of one-character strings, so that prefix,       *)
(* suffix, substring, replacement, cleaning and parsing are computed and    *)
(* not assumed.  Fixed messages of the program are TLA+ strings; a          *)
(* formatted message is the tuple of its parts in order.                    *)
(* File paths follow the Unix build (filepath.Separator = "/").             *)
(***************************************************************************)
EXTENDS Integers, Sequences, FiniteSets, TLC

VARIABLES
    pc,          \* where Execute is: idle, received, ..., dispatched, done
    cmdExecutor, \* the plugin's executor field: "nil" or "mock"
    req,         \* the ExecuteRequest being served
    envKey,      \* the value of CHOCOLATEY_API_KEY (<<>> when unset)
    cfg,         \* the Config parseConfig returned
    version,     \* pushPackage's version
    packagePath, \* pushPackage's packagePath
    lookup,      \* what validateSourceURL's net.LookupIP call returned
    calls,       \* the Run calls made on the executor, in order
    proc,        \* the external process of the Run call in progress
    run,         \* what the Run call returned: output and err
    resp,        \* the ExecuteResponse returned
    nresp,       \* how many times Execute returned for this request
    retErr,      \* the error Execute returned
    vpPath,      \* SpecPath: the argument given to validatePackagePath
    vpErr,       \* SpecPath: its result
    vuURL,       \* SpecURL: the argument given to validateSourceURL
    vuOut,       \* SpecURL: its result
    viIP,        \* SpecIP: the argument given to isPrivateIP
    viOut,       \* SpecIP: its result
    called,      \* SpecPath, SpecURL, SpecIP, SpecValidate: the call has been made
    vcConfig,    \* SpecValidate: the config bag given to Validate
    vcAnswer,    \* SpecValidate: what the resolver answers during the call
    vcResp       \* SpecValidate: the ValidateResponse returned

vars ==
    <<pc, cmdExecutor, req, envKey, cfg, version, packagePath, lookup, calls,
      proc, run, resp, nresp, retErr, vpPath, vpErr, vuURL, vuOut, viIP, viOut,
      called, vcConfig, vcAnswer, vcResp>>

(***************************************************************************)
(* Bounds of the model.                                                     *)
(***************************************************************************)
\* Largest number of "/"-separated segments of an enumerated path.
MaxSegs == 4
\* Largest number of addresses in one answer of the resolver.
MaxAddrs == 2

(***************************************************************************)
(* Characters and string helpers (Go: package strings).                     *)
(***************************************************************************)
Lowers == <<"a", "b", "c", "d", "e", "f", "g", "h", "i", "j", "k", "l", "m",
            "n", "o", "p", "q", "r", "s", "t", "u", "v", "w", "x", "y", "z">>
Uppers == <<"A", "B", "C", "D", "E", "F", "G", "H", "I", "J", "K", "L", "M",
            "N", "O", "P", "Q", "R", "S", "T", "U", "V", "W", "X", "Y", "Z">>
Digits == <<"0", "1", "2", "3", "4", "5", "6", "7", "8", "9">>

Range(s) == {s[i] : i \in 1..Len(s)}

IsLetter(c) == c \in Range(Lowers) \/ c \in Range(Uppers)
IsDigit(c) == c \in Range(Digits)
IsAlnum(c) == IsLetter(c) \/ IsDigit(c)

\* strings.ToLower on one ASCII character.
ToLowerCh(c) ==
    IF c \in Range(Uppers)
    THEN Lowers[CHOOSE i \in 1..26 : Uppers[i] = c]
    ELSE c

\* A lower-casing that leaves the string as it is.
ToLower_Identity(s) == s

\* strings.ToLower
ToLower(s) == [i \in 1..Len(s) |-> ToLowerCh(s[i])]

\* strings.HasPrefix
HasPrefix(s, p) == Len(s) >= Len(p) /\ SubSeq(s, 1, Len(p)) = p

\* strings.HasSuffix
HasSuffix(s, p) ==
    Len(s) >= Len(p) /\ SubSeq(s, Len(s) - Len(p) + 1, Len(s)) = p

\* strings.Contains
Contains(s, sub) ==
    \E i \in 1..(Len(s) - Len(sub) + 1) : SubSeq(s, i, i + Len(sub) - 1) = sub

\* strings.TrimPrefix: one leading occurrence of p is removed.
TrimPrefix(s, p) ==
    IF HasPrefix(s, p) THEN SubSeq(s, Len(p) + 1, Len(s)) ELSE s

\* strings.ReplaceAll for a non-empty old: non-overlapping occurrences,
\* left to right.
RECURSIVE ReplaceAll(_, _, _)
ReplaceAll(s, old, new) ==
    LET hits == {i \in 1..(Len(s) - Len(old) + 1) :
                    SubSeq(s, i, i + Len(old) - 1) = old}
    IN  IF hits = {} THEN s
        ELSE LET first == CHOOSE i \in hits : \A j \in hits : i <= j
             IN  SubSeq(s, 1, first - 1) \o new
                    \o ReplaceAll(SubSeq(s, first + Len(old), Len(s)), old, new)

\* Positions of the character c in s.
Positions(s, c) == {i \in 1..Len(s) : s[i] = c}

\* The k-th smallest element of a finite set of integers.
Nth(S, k) == CHOOSE i \in S : Cardinality({j \in S : j < i}) = k - 1

\* strings.Split(s, c) for a one-character separator: the segments between
\* consecutive separators (Cardinality(Positions) + 1 of them).
Split(s, c) ==
    LET P == Positions(s, c)
        n == Cardinality(P) + 1
    IN  [k \in 1..n |->
            SubSeq(s, IF k = 1 THEN 1 ELSE Nth(P, k - 1) + 1,
                      IF k = n THEN Len(s) ELSE Nth(P, k) - 1)]

\* strings.Join with a one-character separator.
RECURSIVE Join(_, _)
Join(segs, c) ==
    IF segs = <<>> THEN <<>>
    ELSE IF Len(segs) = 1 THEN segs[1]
    ELSE segs[1] \o <<c>> \o Join(Tail(segs), c)

\* n copies of the character c.
Repeat(c, n) == [i \in 1..n |-> c]

(***************************************************************************)
(* String literals of the program.                                          *)
(***************************************************************************)
Separator == "/"
S_dotdot == <<".", ".">>
S_sepdotdot == <<Separator, ".", ".">>
S_nupkg == <<".", "n", "u", "p", "k", "g">>

\* Longest accepted package path, in characters.
MaxPathLen == 512

(***************************************************************************)
(* path/filepath (Unix).                                                    *)
(***************************************************************************)
\* The element loop of filepath.Clean over the path's segments.  out is the
\* output so far (its segments), dotdot the number of leading ".." segments
\* of out, below which a later ".." cannot backtrack.
RECURSIVE CleanSegs(_, _, _, _)
CleanSegs(segs, out, dotdot, rooted) ==
    IF segs = <<>> THEN out
    ELSE LET e == Head(segs)
             rest == Tail(segs)
         IN  IF e = <<>> \/ e = <<".">>
             THEN CleanSegs(rest, out, dotdot, rooted)
             ELSE IF e = S_dotdot
             THEN IF Len(out) > dotdot
                  THEN CleanSegs(rest, SubSeq(out, 1, Len(out) - 1), dotdot, rooted)
                  ELSE IF ~rooted
                  THEN CleanSegs(rest, Append(out, S_dotdot), dotdot + 1, rooted)
                  ELSE CleanSegs(rest, out, dotdot, rooted)
             ELSE CleanSegs(rest, Append(out, e), dotdot, rooted)

\* filepath.Clean
Clean(path) ==
    IF path = <<>> THEN <<".">>
    ELSE LET rooted == path[1] = Separator
             out == Join(CleanSegs(Split(path, Separator), <<>>, 0, rooted), Separator)
         IN  IF rooted THEN <<Separator>> \o out
             ELSE IF out = <<>> THEN <<".">>
             ELSE out

\* s without its trailing separators.
RECURSIVE StripTrailingSeps(_)
StripTrailingSeps(s) ==
    IF s # <<>> /\ s[Len(s)] = Separator
    THEN StripTrailingSeps(SubSeq(s, 1, Len(s) - 1))
    ELSE s

\* filepath.Base
Base(path) ==
    IF path = <<>> THEN <<".">>
    ELSE LET p == StripTrailingSeps(path)
             segs == Split(p, Separator)
             last == segs[Len(segs)]
         IN  IF p = <<>> THEN <<Separator>> ELSE last

(***************************************************************************)
(* The package path validator.                                              *)
(***************************************************************************)
\* A character of the class [a-zA-Z0-9._/-].
InPathClass(c) == IsAlnum(c) \/ c \in {".", "_", "/", "-"}

\* packagePathPattern.MatchString: (?i)^[a-zA-Z0-9][a-zA-Z0-9._/-]*\.nupkg$
packagePathPattern(s) ==
    /\ Len(s) >= 1 + Len(S_nupkg)
    /\ IsAlnum(s[1])
    /\ \A i \in 2..(Len(s) - Len(S_nupkg)) : InPathClass(s[i])
    /\ ToLower(SubSeq(s, Len(s) - Len(S_nupkg) + 1, Len(s))) = S_nupkg

\* An error is the tuple of the parts of its message, in order; nil is the
\* empty tuple.
NoError == <<>>
ErrPathEmpty == <<"package path cannot be empty">>
ErrPathTooLong == <<"package path too long (max 512 characters)">>
ErrPathTraversal ==
    <<"path traversal detected: cannot use '..' to escape working directory">>
ErrPathSuffix == <<"package path must end with .nupkg">>
ErrPathFilename == <<"invalid package filename: contains disallowed characters">>

\* A traversal test that looks only for a separator followed by "..".
IsTraversal_NoPrefix(cleaned) == Contains(cleaned, S_sepdotdot)

\* The traversal test of validatePackagePath on the cleaned path.
IsTraversal(cleaned) ==
    HasPrefix(cleaned, S_dotdot) \/ Contains(cleaned, S_sepdotdot)

\* A validator that tests the suffix before the length and the traversal.
validatePackagePath_SuffixFirst(path) ==
    IF path = <<>> THEN ErrPathEmpty
    ELSE IF ~HasSuffix(ToLower(path), S_nupkg) THEN ErrPathSuffix
    ELSE IF Len(path) > MaxPathLen THEN ErrPathTooLong
    ELSE IF IsTraversal(Clean(path)) THEN ErrPathTraversal
    ELSE IF ~packagePathPattern(Base(path)) THEN ErrPathFilename
    ELSE NoError

\* validatePackagePath: the error message, or NoError.
validatePackagePath(path) ==
    IF path = <<>> THEN ErrPathEmpty
    ELSE IF Len(path) > MaxPathLen THEN ErrPathTooLong
    ELSE IF IsTraversal(Clean(path)) THEN ErrPathTraversal
    ELSE IF ~HasSuffix(ToLower(path), S_nupkg) THEN ErrPathSuffix
    ELSE IF ~packagePathPattern(Base(path)) THEN ErrPathFilename
    ELSE NoError

(***************************************************************************)
(* Decimal conversions (Go: fmt %d, and the digit loops of net and url).    *)
(***************************************************************************)
DigitVal(c) == (CHOOSE i \in 1..10 : Digits[i] = c) - 1

AllDigits(s) == \A i \in 1..Len(s) : IsDigit(s[i])

\* The value of a non-empty string of decimal digits.
RECURSIVE Atoi(_)
Atoi(s) ==
    IF s = <<>> THEN 0
    ELSE 10 * Atoi(SubSeq(s, 1, Len(s) - 1)) + DigitVal(s[Len(s)])

\* The decimal digits of n >= 0.
RECURSIVE NatToStr(_)
NatToStr(n) ==
    IF n < 10 THEN <<Digits[n + 1]>>
    ELSE NatToStr(n \div 10) \o <<Digits[(n % 10) + 1]>>

\* fmt.Sprintf("%d", n)
IntToStr(n) == IF n < 0 THEN <<"-">> \o NatToStr(-n) ELSE NatToStr(n)

(***************************************************************************)
(* net.IP: an address is its bytes, 4 for the IPv4 form and 16 for the      *)
(* IPv6 form, as in Go.                                                      *)
(***************************************************************************)
Pow2(n) == IF n = 0 THEN 1 ELSE IF n = 1 THEN 2 ELSE IF n = 2 THEN 4
           ELSE IF n = 3 THEN 8 ELSE IF n = 4 THEN 16 ELSE IF n = 5 THEN 32
           ELSE IF n = 6 THEN 64 ELSE IF n = 7 THEN 128 ELSE 256

\* b & m for a byte b and a mask m that keeps the `bits` high bits.
MaskHigh(b, bits) == b - (b % Pow2(8 - bits))

V4InV6Prefix == <<0, 0, 0, 0, 0, 0, 0, 0, 0, 0, 255, 255>>

\* IP.To4: the 4-byte form of an IPv4 or IPv4-mapped address, <<>> for nil.
To4(ip) ==
    IF Len(ip) = 4 THEN ip
    ELSE IF Len(ip) = 16 /\ SubSeq(ip, 1, 12) = V4InV6Prefix THEN SubSeq(ip, 13, 16)
    ELSE <<>>

\* IPNet.Contains for the network [ip |-> bytes, ones |-> prefix length].
CIDRContains(block, addr) ==
    LET x == IF To4(addr) # <<>> THEN To4(addr) ELSE addr
    IN  /\ Len(x) = Len(block.ip)
        /\ \A i \in 1..Len(x) :
              LET over == block.ones - 8 * (i - 1)
                  bits == IF over <= 0 THEN 0 ELSE IF over >= 8 THEN 8 ELSE over
              IN  MaskHigh(block.ip[i], bits) = MaskHigh(x[i], bits)

IPv6loopback == <<0, 0, 0, 0, 0, 0, 0, 0, 0, 0, 0, 0, 0, 0, 0, 1>>

\* IP.IsLoopback
IsLoopback(ip) ==
    IF To4(ip) # <<>> THEN To4(ip)[1] = 127 ELSE ip = IPv6loopback

\* IP.IsLinkLocalUnicast
IsLinkLocalUnicast(ip) ==
    IF To4(ip) # <<>> THEN To4(ip)[1] = 169 /\ To4(ip)[2] = 254
    ELSE Len(ip) = 16 /\ ip[1] = 254 /\ MaskHigh(ip[2], 2) = 128

\* IP.IsLinkLocalMulticast
IsLinkLocalMulticast(ip) ==
    IF To4(ip) # <<>>
    THEN To4(ip)[1] = 224 /\ To4(ip)[2] = 0 /\ To4(ip)[3] = 0
    ELSE Len(ip) = 16 /\ ip[1] = 255 /\ ip[2] % 16 = 2

\* IP.IsPrivate
IsPrivate(ip) ==
    IF To4(ip) # <<>>
    THEN \/ To4(ip)[1] = 10
         \/ To4(ip)[1] = 172 /\ MaskHigh(To4(ip)[2], 4) = 16
         \/ To4(ip)[1] = 192 /\ To4(ip)[2] = 168
    ELSE Len(ip) = 16 /\ MaskHigh(ip[1], 7) = 252

\* The networks net.ParseCIDR returns for the literals of isPrivateIP.
privateRanges ==
    << [ip |-> <<10, 0, 0, 0>>, ones |-> 8],        \* 10.0.0.0/8
       [ip |-> <<172, 16, 0, 0>>, ones |-> 12],     \* 172.16.0.0/12
       [ip |-> <<192, 168, 0, 0>>, ones |-> 16],    \* 192.168.0.0/16
       [ip |-> <<127, 0, 0, 0>>, ones |-> 8],       \* 127.0.0.0/8
       [ip |-> <<169, 254, 0, 0>>, ones |-> 16],    \* 169.254.0.0/16
       [ip |-> <<0, 0, 0, 0>>, ones |-> 8] >>       \* 0.0.0.0/8

IP_v4metadata == <<169, 254, 169, 254>>
\* fd00:ec2::254
IP_v6metadata == <<253, 0, 14, 194, 0, 0, 0, 0, 0, 0, 0, 0, 0, 0, 2, 84>>

cloudMetadata ==
    << [ip |-> IP_v4metadata, ones |-> 32],         \* 169.254.169.254/32
       [ip |-> IP_v6metadata, ones |-> 128] >>      \* fd00:ec2::254/128

\* The generic classifier of isPrivateIP.
GenericPrivate(ip) ==
    IsLoopback(ip) \/ IsLinkLocalUnicast(ip) \/ IsLinkLocalMulticast(ip) \/ IsPrivate(ip)

\* A classifier that consults the listed networks only.
isPrivateIP_ListOnly(ip) ==
    LET allRanges == privateRanges \o cloudMetadata
    IN  \E k \in 1..Len(allRanges) : CIDRContains(allRanges[k], ip)

\* isPrivateIP
isPrivateIP(ip) ==
    LET allRanges == privateRanges \o cloudMetadata
    IN  \/ \E k \in 1..Len(allRanges) : CIDRContains(allRanges[k], ip)
        \/ GenericPrivate(ip)

(***************************************************************************)
(* net/url: Parse and URL.Hostname, for URLs without control characters     *)
(* and percent escapes.                                                      *)
(***************************************************************************)
\* Index of the first (last) occurrence of the character c in s, 0 if none.
IndexCh(s, c) ==
    IF Positions(s, c) = {} THEN 0
    ELSE CHOOSE i \in Positions(s, c) : \A j \in Positions(s, c) : i <= j
LastIndexCh(s, c) ==
    IF Positions(s, c) = {} THEN 0
    ELSE CHOOSE i \in Positions(s, c) : \A j \in Positions(s, c) : i >= j

\* The part of s before the first c (all of s when there is none).
CutBefore(s, c) ==
    IF IndexCh(s, c) = 0 THEN s ELSE SubSeq(s, 1, IndexCh(s, c) - 1)

\* url.getScheme: [err, scheme, rest].
getScheme(rawURL) ==
    LET stops == {i \in 1..Len(rawURL) :
                     ~(\/ IsLetter(rawURL[i])
                       \/ (i > 1 /\ (IsDigit(rawURL[i]) \/ rawURL[i] \in {"+", "-", "."})))}
        i == CHOOSE k \in stops : \A j \in stops : k <= j
    IN  IF stops = {} \/ rawURL[i] # ":"
        THEN [err |-> NoError, scheme |-> <<>>, rest |-> rawURL]
        ELSE IF i = 1
        THEN [err |-> <<"missing protocol scheme">>, scheme |-> <<>>, rest |-> <<>>]
        ELSE [err |-> NoError, scheme |-> SubSeq(rawURL, 1, i - 1),
              rest |-> SubSeq(rawURL, i + 1, Len(rawURL))]

\* url.validOptionalPort
validOptionalPort(port) ==
    \/ port = <<>>
    \/ port[1] = ":" /\ AllDigits(Tail(port))

\* url.parseHost: the error, if any (the host is kept as written).
parseHostErr(host) ==
    IF HasPrefix(host, <<"[">>)
    THEN IF LastIndexCh(host, "]") = 0
         THEN <<"missing ']' in host">>
         ELSE IF ~validOptionalPort(SubSeq(host, LastIndexCh(host, "]") + 1, Len(host)))
         THEN <<"invalid port after host">>
         ELSE NoError
    ELSE IF LastIndexCh(host, ":") # 0
            /\ ~validOptionalPort(SubSeq(host, LastIndexCh(host, ":"), Len(host)))
    THEN <<"invalid port after host">>
    ELSE NoError

\* url.parseAuthority: the host follows the last "@".
AuthorityHost(authority) ==
    SubSeq(authority, LastIndexCh(authority, "@") + 1, Len(authority))

\* url.Parse: [err, scheme, host].
urlParse(rawURL) ==
    LET u == CutBefore(rawURL, "#")
        gs == getScheme(u)
        scheme == ToLower(gs.scheme)
        rest == CutBefore(gs.rest, "?")
        authority == CutBefore(SubSeq(rest, 3, Len(rest)), "/")
    IN  IF gs.err # NoError
        THEN [err |-> gs.err, scheme |-> <<>>, host |-> <<>>]
        ELSE IF ~HasPrefix(rest, <<"/">>) /\ scheme # <<>>
        THEN [err |-> NoError, scheme |-> scheme, host |-> <<>>]     \* opaque
        ELSE IF ~HasPrefix(rest, <<"/">>) /\ Contains(CutBefore(rest, "/"), <<":">>)
        THEN [err |-> <<"first path segment in URL cannot contain colon">>,
              scheme |-> <<>>, host |-> <<>>]
        ELSE IF (scheme # <<>> \/ ~HasPrefix(rest, <<"/", "/", "/">>))
                /\ HasPrefix(rest, <<"/", "/">>)
        THEN IF parseHostErr(AuthorityHost(authority)) # NoError
             THEN [err |-> parseHostErr(AuthorityHost(authority)),
                   scheme |-> <<>>, host |-> <<>>]
             ELSE [err |-> NoError, scheme |-> scheme, host |-> AuthorityHost(authority)]
        ELSE [err |-> NoError, scheme |-> scheme, host |-> <<>>]

\* URL.Hostname: the host without a valid port and without its brackets.
Hostname(host) ==
    LET colon == LastIndexCh(host, ":")
        h == IF colon # 0 /\ validOptionalPort(SubSeq(host, colon, Len(host)))
             THEN SubSeq(host, 1, colon - 1)
             ELSE host
    IN  IF HasPrefix(h, <<"[">>) /\ HasSuffix(h, <<"]">>)
        THEN SubSeq(h, 2, Len(h) - 1)
        ELSE h

(***************************************************************************)
(* net.LookupIP.                                                             *)
(***************************************************************************)
\* net.ParseIP for the dotted-decimal form: the 4 bytes, <<>> when the text
\* is not such an address.
ParseIPv4(s) ==
    LET f == Split(s, ".")
        okField(x) == /\ Len(x) \in 1..3
                      /\ AllDigits(x)
                      /\ (Len(x) > 1 => x[1] # "0")
                      /\ Atoi(x) <= 255
    IN  IF Len(f) = 4 /\ \A k \in 1..4 : okField(f[k])
        THEN [k \in 1..4 |-> Atoi(f[k])]
        ELSE <<>>

\* What the resolver may answer: a failure, or a non-empty list of addresses.
DnsFailure == [ok |-> FALSE, ips |-> <<>>]

\* net.LookupIP(host) where `answer` is what the resolver answers for a
\* name: the empty host fails, an IPv4 literal is returned without a query.
LookupIP(host, answer) ==
    IF host = <<>> THEN DnsFailure
    ELSE IF ParseIPv4(host) # <<>> THEN [ok |-> TRUE, ips |-> <<ParseIPv4(host)>>]
    ELSE answer

(***************************************************************************)
(* The source URL validator.                                                 *)
(***************************************************************************)
S_localhost == <<"l", "o", "c", "a", "l", "h", "o", "s", "t">>
S_127001 == <<"1", "2", "7", ".", "0", ".", "0", ".", "1">>
S_v6loop == <<":", ":", "1">>
S_https == <<"h", "t", "t", "p", "s">>
S_http == <<"h", "t", "t", "p">>

ErrURLEmpty == <<"source URL cannot be empty">>
ErrURLParse(e) == <<"invalid URL: ">> \o e
ErrURLNotHTTPS(scheme) == <<"only HTTPS URLs are allowed (got ", scheme, ")">>
ErrURLLocalScheme == <<"invalid URL scheme for localhost (expected http or https)">>
ErrURLResolve == <<"failed to resolve hostname: ", "lookup error">>
ErrURLPrivate == <<"URLs pointing to private networks are not allowed">>

\* isLocalhost of validateSourceURL.
IsLocalhostName(host) == host = S_localhost \/ host = S_127001 \/ host = S_v6loop

\* A scheme test that lets http through as well.
NotHTTPS_AllowHTTP(scheme, isLocalhost) ==
    scheme # S_https /\ scheme # S_http /\ ~isLocalhost

\* The test "Require HTTPS for non-localhost URLs" of validateSourceURL.
NotHTTPS(scheme, isLocalhost) == scheme # S_https /\ ~isLocalhost

\* A loop that looks at the first resolved address only.
AnyPrivate_FirstOnly(ips) == Len(ips) >= 1 /\ isPrivateIP(ips[1])

\* The loop of validateSourceURL over the resolved addresses.
AnyPrivate(ips) == \E k \in 1..Len(ips) : isPrivateIP(ips[k])

\* validateSourceURL: [err, lookedUp, ips], where `answer` is what the
\* resolver answers if it is asked; lookedUp tells whether net.LookupIP was
\* called, and ips is what it returned.
validateSourceURL(rawURL, answer) ==
    LET parsedURL == urlParse(rawURL)
        host == Hostname(parsedURL.host)
        isLocalhost == IsLocalhostName(host)
        r == LookupIP(host, answer)
        NoLookup(e) == [err |-> e, lookedUp |-> FALSE, ips |-> <<>>]
    IN  IF rawURL = <<>> THEN NoLookup(ErrURLEmpty)
        ELSE IF parsedURL.err # NoError THEN NoLookup(ErrURLParse(parsedURL.err))
        ELSE IF NotHTTPS(parsedURL.scheme, isLocalhost)
        THEN NoLookup(ErrURLNotHTTPS(parsedURL.scheme))
        ELSE IF isLocalhost /\ parsedURL.scheme # S_http /\ parsedURL.scheme # S_https
        THEN NoLookup(ErrURLLocalScheme)
        ELSE IF isLocalhost THEN NoLookup(NoError)
        ELSE IF ~r.ok
        THEN [err |-> ErrURLResolve, lookedUp |-> TRUE, ips |-> <<>>]
        ELSE IF AnyPrivate(r.ips)
        THEN [err |-> ErrURLPrivate, lookedUp |-> TRUE, ips |-> r.ips]
        ELSE [err |-> NoError, lookedUp |-> TRUE, ips |-> r.ips]

(***************************************************************************)
(* Configuration.  A raw config bag gives each key either no value, <<>>,   *)
(* or a value v of the expected type, <<v>>.                                 *)
(***************************************************************************)
DefaultSource ==
    <<"h", "t", "t", "p", "s", ":", "/", "/", "p", "u", "s", "h", ".", "c", "h",
      "o", "c", "o", "l", "a", "t", "e", "y", ".", "o", "r", "g", "/">>
DefaultTimeout == 300

\* A GetString in which the environment wins over the bag.
GetString_EnvFirst(opt, envValue, default) ==
    IF envValue # <<>> THEN envValue
    ELSE IF opt # <<>> /\ opt[1] # <<>> THEN opt[1]
    ELSE default

\* helpers.ConfigParser.GetString(key, envVar, default): opt is the bag's
\* entry for the key, envValue the value of the named environment variable
\* (<<>> when no variable is named or it is unset).
GetString(opt, envValue, default) ==
    IF opt # <<>> /\ opt[1] # <<>> THEN opt[1]
    ELSE IF envValue # <<>> THEN envValue
    ELSE default

\* helpers.ConfigParser.GetInt(key, default)
GetInt(opt, default) == IF opt # <<>> THEN opt[1] ELSE default

\* helpers.ConfigParser.GetBool(key, default)
GetBool(opt, default) == IF opt # <<>> THEN opt[1] ELSE default

\* ChocolateyPlugin.parseConfig, where envValue is the value of
\* CHOCOLATEY_API_KEY.
parseConfig(raw, envValue) ==
    [ APIKey      |-> GetString(raw.api_key, envValue, <<>>),
      Source      |-> GetString(raw.source, <<>>, DefaultSource),
      PackagePath |-> GetString(raw.package_path, <<>>, <<>>),
      Timeout     |-> GetInt(raw.timeout, DefaultTimeout),
      Force       |-> GetBool(raw.force, FALSE) ]

(***************************************************************************)
(* The command builder and the pieces of pushPackage.                        *)
(***************************************************************************)
S_choco == <<"c", "h", "o", "c", "o">>
S_push == <<"p", "u", "s", "h">>
S_apikey == <<"-", "-", "a", "p", "i", "-", "k", "e", "y">>
S_source == <<"-", "-", "s", "o", "u", "r", "c", "e">>
S_timeout == <<"-", "-", "t", "i", "m", "e", "o", "u", "t">>
S_force == <<"-", "-", "f", "o", "r", "c", "e">>
S_versionPH == <<"{", "{", "v", "e", "r", "s", "i", "o", "n", "}", "}">>
S_tagPH == <<"{", "{", "t", "a", "g", "}", "}">>

\* A builder that puts the source before the API key.
buildPushArgs_SourceFirst(c, path) ==
    <<S_push, path, S_source, c.Source, S_apikey, c.APIKey,
      S_timeout, IntToStr(c.Timeout)>>
    \o (IF c.Force THEN <<S_force>> ELSE <<>>)

\* ChocolateyPlugin.buildPushArgs
buildPushArgs(c, path) ==
    <<S_push, path, S_apikey, c.APIKey, S_source, c.Source,
      S_timeout, IntToStr(c.Timeout)>>
    \o (IF c.Force THEN <<S_force>> ELSE <<>>)

\* A normalization that strips every leading v.
RECURSIVE TrimLeftV(_)
TrimLeftV(s) == IF s # <<>> /\ s[1] = "v" THEN TrimLeftV(Tail(s)) ELSE s

NormalVersion_AllLeadingV(releaseCtx) == TrimLeftV(releaseCtx.Version)

\* version := strings.TrimPrefix(releaseCtx.Version, "v")
NormalVersion(releaseCtx) == TrimPrefix(releaseCtx.Version, <<"v">>)

\* The two strings.ReplaceAll calls of pushPackage.
SubstitutePath(template, releaseCtx) ==
    ReplaceAll(ReplaceAll(template, S_versionPH, NormalVersion(releaseCtx)),
               S_tagPH, releaseCtx.TagName)

HookPostPublish == "post-publish"

ErrAPIKeyRequired ==
    <<"API key is required: set api_key in config or CHOCOLATEY_API_KEY environment variable">>

\* plugin.ExecuteResponse values built by Execute and pushPackage.  Message
\* and Error are the tuples of the parts of the text; Outputs is the map, or
\* <<>> for none.
RespUnhandled(hook) ==
    [Success |-> TRUE, Message |-> <<"Hook ", hook, " not handled">>,
     Error |-> <<>>, Outputs |-> <<>>]

RespFailure(prefix, err) ==
    [Success |-> FALSE, Message |-> <<>>, Error |-> prefix \o err, Outputs |-> <<>>]

RespInvalidPath(err) == RespFailure(<<"invalid package path: ">>, err)
RespInvalidSource(err) == RespFailure(<<"invalid source URL: ">>, err)
RespNoAPIKey == RespFailure(<<>>, ErrAPIKeyRequired)

\* A preview that lists the API key among its outputs.
RespDryRun_WithKey(c, path, ver) ==
    [Success |-> TRUE, Message |-> <<"Would push Chocolatey package">>,
     Error |-> <<>>,
     Outputs |-> [package_path |-> path, source |-> c.Source,
                  ver |-> ver, force |-> c.Force,
                  timeout |-> c.Timeout, api_key |-> c.APIKey]]

\* The response of the dry-run branch: the metadata of the push.
RespDryRun(c, path, ver) ==
    [Success |-> TRUE, Message |-> <<"Would push Chocolatey package">>,
     Error |-> <<>>,
     Outputs |-> [package_path |-> path, source |-> c.Source,
                  ver |-> ver, force |-> c.Force,
                  timeout |-> c.Timeout]]

\* A failed-push response that leaves the captured output out.
RespPushFailed_NoOutput(err, output) ==
    RespFailure(<<"choco push failed: ">>, err)

\* The response to a Run that returned an error.
RespPushFailed(err, output) ==
    RespFailure(<<"choco push failed: ">>, err \o <<"\nOutput: ", output>>)

\* A success response that leaves the captured output out.
RespPushed_NoOutput(c, path, ver, output) ==
    [Success |-> TRUE,
     Message |-> <<"Successfully pushed Chocolatey package ", path,
                   " to ", c.Source>>,
     Error |-> <<>>,
     Outputs |-> [package_path |-> path, source |-> c.Source, ver |-> ver]]

\* The response to a Run that succeeded.
RespPushed(c, path, ver, output) ==
    [Success |-> TRUE,
     Message |-> <<"Successfully pushed Chocolatey package ", path,
                   " to ", c.Source>>,
     Error |-> <<>>,
     Outputs |-> [package_path |-> path, source |-> c.Source,
                  ver |-> ver, output |-> output]]

(***************************************************************************)
(* The command executor.                                                     *)
(***************************************************************************)
Out_ok == <<"o", "k">>
Out_exists == <<"e", "x", "i", "s", "t", "s">>
RunOK == [output |-> Out_ok, err |-> NoError]
RunExit1 == [output |-> Out_exists, err |-> <<"exit status 1">>]
RunDeadline == [output |-> <<>>, err |-> <<"context deadline exceeded">>]
RunKilled == [output |-> <<>>, err |-> <<"signal: killed">>]

\* ChocolateyPlugin.getExecutor: the injected executor, or the real one
\* when the field is nil.
getExecutor(field) == IF field # "nil" THEN field ELSE "real"

\* What Run may return under a deadline of `timeout` seconds.  The mock
\* returns what it was programmed with, whatever the context; the real
\* executor's process succeeds, exits non-zero or is killed at the
\* deadline, and with a deadline that is not in the future it is never
\* started.
RunResults(executor, timeout) ==
    IF executor = "mock" THEN {RunOK, RunExit1}
    ELSE IF timeout <= 0 THEN {RunDeadline}
    ELSE {RunOK, RunExit1, RunKilled}

\* The process Run starts: the mock starts none and returns at once;
\* exec.CommandContext refuses to start a command whose context is already
\* done; otherwise the command runs.
StartProcess(executor, timeout) ==
    IF executor = "mock" THEN "mock"
    ELSE IF timeout <= 0 THEN "not-started"
    ELSE "running"

\* What CombinedOutput returns for a process that is no longer running.
ProcResult(p) ==
    CASE p = "mock" -> {RunOK, RunExit1}
      [] p = "exited-0" -> {RunOK}
      [] p = "exited-1" -> {RunExit1}
      [] p = "killed" -> {RunKilled}
      [] p = "not-started" -> {RunDeadline}
      [] OTHER -> {}

(***************************************************************************)
(* Inputs of the bounded specifications.                                     *)
(***************************************************************************)
\* The path segments the enumerated paths are built from: empty (a leading,
\* doubled or trailing separator), ".", "..", a directory, package files in
\* two capitalizations, a name that starts with two dots, a name with a
\* shell metacharacter, a name with another suffix, a name that starts with
\* a dash.
PathSegments ==
    { <<>>, <<".">>, S_dotdot, <<"e", "t", "c">>,
      <<"x">> \o S_nupkg,
      <<"p", ".", "N", "u", "P", "k", "g">>,
      S_dotdot \o <<"x">> \o S_nupkg,
      <<"c", ";", "d">> \o S_nupkg,
      <<"p", ".", "z", "i", "p">>,
      <<"-", "a">> \o S_nupkg }

SegLists == UNION { [1..n -> PathSegments] : n \in 1..MaxSegs }

\* Paths at and around the length limit: exactly MaxPathLen characters, one
\* more, and over-long paths that also traverse or lack the suffix.
LongPaths ==
    { Repeat("a", MaxPathLen - Len(S_nupkg)) \o S_nupkg,
      Repeat("a", MaxPathLen - Len(S_nupkg) + 1) \o S_nupkg,
      S_dotdot \o <<Separator>> \o Repeat("a", MaxPathLen) \o S_nupkg,
      Repeat("a", MaxPathLen + 1) }

\* Paths of the tests and of the same kinds: package names in other
\* capitalizations, and names and directories with a semicolon, a bar or a
\* space.
ExamplePaths ==
    { <<"P", "K", "G", ".", "N", "U", "P", "K", "G">>,
      <<"p", "k", "g", ".", "N", "u", "P", "k", "g">>,
      <<"m", "y", "p", "a", "c", "k", "a", "g", "e", ".", "1", ".", "0", ".", "0", ".", "N", "U", "P", "K", "G">>,
      <<"m", "y", ";", "p", "a", "c", "k", "a", "g", "e", ".", "n", "u", "p", "k", "g">>,
      <<"a", "|", "b", ".", "n", "u", "p", "k", "g">>,
      <<"a", " ", "b", ".", "n", "u", "p", "k", "g">>,
      <<"c", " ", "d", "/", "x", ".", "n", "u", "p", "k", "g">>,
      <<"a", "|", "b", "/", "x", ".", "n", "u", "p", "k", "g">>,
      <<"_", "x", ".", "n", "u", "p", "k", "g">>,
      <<"d", "i", "r", "/", ".", "n", "u", "p", "k", "g">> }

PathInputs ==
    { Join(sl, Separator) : sl \in SegLists } \cup LongPaths \cup ExamplePaths

\* The resolver's answers over a set of addresses: a failure, or 1..MaxAddrs
\* of the addresses.
AnswersOver(IPs) ==
    {DnsFailure} \cup
    { [ok |-> TRUE, ips |-> l] : l \in UNION { [1..n -> IPs] : n \in 1..MaxAddrs } }

\* Addresses a resolver may answer with in SpecURL: a public one, a private
\* one, the IPv4 and the IPv6 metadata address.
DnsIPs == { <<8, 8, 8, 8>>, <<10, 0, 0, 1>>, IP_v4metadata, IP_v6metadata }
DnsAnswers == AnswersOver(DnsIPs)

\* The resolver's answers to the requests of Spec: a failure, one public
\* address, and a public address followed by the metadata address.
ExecDnsAnswers ==
    { DnsFailure,
      [ok |-> TRUE, ips |-> << <<8, 8, 8, 8>> >>],
      [ok |-> TRUE, ips |-> << <<8, 8, 8, 8>>, IP_v4metadata >>] }

\* Source URLs: <scheme part><slashes><userinfo><host><port><path>, and the
\* empty string.
URLSchemeParts ==
    { <<>>, <<":">>, S_https \o <<":">>, S_http \o <<":">>,
      <<"H", "T", "T", "P", "S", ":">>, <<"f", "i", "l", "e", ":">> }
URLSlashes == { <<>>, <<"/", "/">> }
URLUserinfos == { <<>>, S_localhost \o <<"@">> }
URLHosts ==
    { <<>>, S_localhost, S_127001, <<"[">> \o S_v6loop \o <<"]">>, S_v6loop,
      <<"L", "O", "C", "A", "L", "H", "O", "S", "T">>,
      <<"e", "v", "i", "l", ".", "c", "o", "m">>,
      <<"n", "o", "t", "-", "a", "-", "u", "r", "l">>,
      <<"1", "0", ".", "0", ".", "0", ".", "1">>,
      <<"8", ".", "8", ".", "8", ".", "8">> }
URLPorts == { <<>>, <<":", "8", "0", "8", "0">>, <<":", "x">> }
URLPaths == { <<>>, <<"/", "e", "t", "c", "/", "p", "a", "s", "s", "w", "d">> }

URLInputs ==
    { s \o sl \o u \o h \o p \o t :
        s \in URLSchemeParts, sl \in URLSlashes, u \in URLUserinfos,
        h \in URLHosts, p \in URLPorts, t \in URLPaths }

\* Addresses given to isPrivateIP: IPv4 addresses from the bytes at and next
\* to the edges of the listed networks, the same in IPv4-mapped form, and
\* IPv6 addresses from the bytes that decide the generic classes.
IPv4Inputs ==
    { <<a, b, c, d>> :
        a \in {0, 1, 8, 9, 10, 11, 126, 127, 128, 169, 172, 192, 224},
        b \in {0, 1, 8, 15, 16, 31, 32, 167, 168, 169, 253, 254, 255},
        c \in {0, 1, 8, 169},
        d \in {0, 1, 8, 254} }
IPv6Inputs ==
    { <<a, b, c, d>> \o <<0, 0, 0, 0, 0, 0, 0, 0, 0, 0>> \o <<e, f>> :
        a \in {0, 32, 252, 253, 254, 255}, b \in {0, 2, 18, 128, 191, 192},
        c \in {0, 14}, d \in {0, 194}, e \in {0, 2}, f \in {0, 1, 84} }
IPInputs ==
    IPv4Inputs \cup IPv6Inputs \cup { V4InV6Prefix \o ip : ip \in IPv4Inputs }

\* Inputs of Execute.
Hooks == { HookPostPublish, "pre-publish" }
T_pkg == <<"p", "k", "g">>
PackagePathOpts ==
    { <<>>,
      << T_pkg \o <<".", "1", ".", "0", ".", "0">> \o S_nupkg >>,
      << T_pkg \o <<".">> \o S_versionPH \o S_nupkg >>,
      << S_tagPH \o <<"/">> \o T_pkg \o S_nupkg >>,
      << S_dotdot \o <<"/">> \o T_pkg \o S_nupkg >>,
      << <<"/", "e", "t", "c", "/">> \o T_pkg \o S_nupkg >> }
Versions == { <<"v", "2", ".", "1", ".", "0">>, <<"1", ".", "0", ".", "0">>, <<"v", ";", "x">> }
TagNames == { <<"v", "2", ".", "1", ".", "0">>, <<".", ".", "/", ".", ".">> }
APIKeyOpts == { <<>>, << <<"k", "1">> >> }
EnvKeys == { <<>>, <<"e", "2">> }
SourceOpts ==
    { <<>>,
      << S_http \o <<":", "/", "/", "e", "v", "i", "l", ".", "c", "o", "m", "/">> >>,
      << S_http \o <<":", "/", "/">> \o S_localhost \o <<":", "8", "0", "8", "0", "/">> >> }
TimeoutOpts == { <<>>, <<0>>, <<600>> }
ForceOpts == { <<>>, <<TRUE>> }

Requests ==
    [ Hook : Hooks,
      Config : [ package_path : PackagePathOpts, api_key : APIKeyOpts,
                 source : SourceOpts, timeout : TimeoutOpts, force : ForceOpts ],
      Context : [ Version : Versions, TagName : TagNames ],
      DryRun : BOOLEAN ]

(***************************************************************************)
(* State.                                                                    *)
(***************************************************************************)
None == <<>>

\* The variables of the pure-function specifications when not in use, and
\* their results before the call.
NoURLResult == [err |-> NoError, lookedUp |-> FALSE, ips |-> <<>>]
PathIdle == vpPath = None /\ vpErr = NoError
URLIdle == vuURL = None /\ vuOut = NoURLResult
IPIdle == viIP = None /\ viOut = FALSE
ValidateIdle == vcConfig = None /\ vcAnswer = None /\ vcResp = None

\* The plugin with no request in progress.
PluginIdle ==
    /\ pc = "idle"
    /\ req = None /\ envKey = None /\ cfg = None
    /\ version = None /\ packagePath = None /\ lookup = None
    /\ calls = <<>> /\ proc = "none" /\ run = None
    /\ resp = None /\ nresp = 0 /\ retErr = "nil"

validateVars == <<vcConfig, vcAnswer, vcResp>>
pureVars == <<vpPath, vpErr, vuURL, vuOut, viIP, viOut, called, validateVars>>
reqVars == <<req, envKey>>
pluginVars ==
    <<pc, cmdExecutor, req, envKey, cfg, version, packagePath, lookup, calls,
      proc, run, resp, nresp, retErr>>

(***************************************************************************)
(* Spec: Execute, one request at a time.                                     *)
(***************************************************************************)
Init ==
    /\ cmdExecutor \in {"nil", "mock"}
    /\ PluginIdle
    /\ PathIdle /\ URLIdle /\ IPIdle /\ ValidateIdle /\ called = FALSE

\* The host calls Execute(ctx, req).
Receive ==
    /\ pc = "idle"
    /\ req' \in Requests
    /\ envKey' \in EnvKeys
    /\ pc' = "received"
    /\ UNCHANGED <<cmdExecutor, proc, cfg, version, packagePath, lookup, calls, run, resp,
                   nresp, retErr, pureVars>>

\* cfg := p.parseConfig(req.Config)
ParseConfig ==
    /\ pc = "received"
    /\ cfg' = parseConfig(req.Config, envKey)
    /\ pc' = "config-resolved"
    /\ UNCHANGED <<cmdExecutor, proc, reqVars, version, packagePath, lookup, calls,
                   run, resp, nresp, retErr, pureVars>>

\* An Execute that returns a failed response together with an error.
Respond_ErrorOnFailure(r) ==
    /\ resp' = r
    /\ nresp' = nresp + 1
    /\ retErr' = IF r.Success THEN "nil" ELSE "error"
    /\ pc' = "done"

\* Execute returns `r` and a nil error.
Respond(r) ==
    /\ resp' = r
    /\ nresp' = nresp + 1
    /\ retErr' = "nil"
    /\ pc' = "done"

\* A default branch that asks for the API key before it answers.
UnhandledHook_Validating ==
    /\ pc = "config-resolved"
    /\ req.Hook # HookPostPublish
    /\ IF cfg.APIKey = <<>>
       THEN Respond(RespNoAPIKey)
       ELSE Respond(RespUnhandled(req.Hook))
    /\ UNCHANGED <<cmdExecutor, proc, reqVars, cfg, version, packagePath, lookup,
                   calls, run, pureVars>>

\* The default branch of the switch on req.Hook.
UnhandledHook ==
    /\ pc = "config-resolved"
    /\ req.Hook # HookPostPublish
    /\ Respond(RespUnhandled(req.Hook))
    /\ UNCHANGED <<cmdExecutor, proc, reqVars, cfg, version, packagePath, lookup,
                   calls, run, pureVars>>

\* pushPackage: the placeholders of the package path are resolved.
Substitute ==
    /\ pc = "config-resolved"
    /\ req.Hook = HookPostPublish
    /\ version' = NormalVersion(req.Context)
    /\ packagePath' = SubstitutePath(cfg.PackagePath, req.Context)
    /\ pc' = "path-substituted"
    /\ UNCHANGED <<cmdExecutor, proc, reqVars, cfg, lookup, calls, run, resp, nresp,
                   retErr, pureVars>>

\* A pushPackage that validates the package path as configured, before
\* its placeholders are resolved.
ValidatePath_Template ==
    /\ pc = "path-substituted"
    /\ IF validatePackagePath(cfg.PackagePath) # NoError
       THEN Respond(RespInvalidPath(validatePackagePath(cfg.PackagePath)))
       ELSE pc' = "path-ok" /\ UNCHANGED <<resp, nresp, retErr>>
    /\ UNCHANGED <<cmdExecutor, proc, reqVars, cfg, version, packagePath, lookup,
                   calls, run, pureVars>>

\* A pushPackage that asks for the API key before it validates the path.
ValidatePath_KeyFirst ==
    /\ pc = "path-substituted"
    /\ IF cfg.APIKey = <<>>
       THEN Respond(RespNoAPIKey)
       ELSE IF validatePackagePath(packagePath) # NoError
       THEN Respond(RespInvalidPath(validatePackagePath(packagePath)))
       ELSE pc' = "path-ok" /\ UNCHANGED <<resp, nresp, retErr>>
    /\ UNCHANGED <<cmdExecutor, proc, reqVars, cfg, version, packagePath, lookup,
                   calls, run, pureVars>>

\* pushPackage: validatePackagePath(packagePath).
ValidatePath ==
    /\ pc = "path-substituted"
    /\ IF validatePackagePath(packagePath) # NoError
       THEN Respond(RespInvalidPath(validatePackagePath(packagePath)))
       ELSE pc' = "path-ok" /\ UNCHANGED <<resp, nresp, retErr>>
    /\ UNCHANGED <<cmdExecutor, proc, reqVars, cfg, version, packagePath, lookup,
                   calls, run, pureVars>>

\* pushPackage: validateSourceURL(cfg.Source); the resolver answers, if it
\* is asked, with any of ExecDnsAnswers.
ValidateURL ==
    /\ pc = "path-ok"
    /\ \E answer \in ExecDnsAnswers :
          LET r == validateSourceURL(cfg.Source, answer)
          IN  /\ lookup' = [lookedUp |-> r.lookedUp, ips |-> r.ips]
              /\ IF r.err # NoError
                 THEN Respond(RespInvalidSource(r.err))
                 ELSE pc' = "url-ok" /\ UNCHANGED <<resp, nresp, retErr>>
    /\ UNCHANGED <<cmdExecutor, proc, reqVars, cfg, version, packagePath, calls,
                   run, pureVars>>

\* A pushPackage that asks for the API key of real runs only.
CheckAPIKey_RealRunsOnly ==
    /\ pc = "url-ok"
    /\ IF cfg.APIKey = <<>> /\ ~req.DryRun
       THEN Respond(RespNoAPIKey)
       ELSE pc' = "validated" /\ UNCHANGED <<resp, nresp, retErr>>
    /\ UNCHANGED <<cmdExecutor, proc, reqVars, cfg, version, packagePath, lookup,
                   calls, run, pureVars>>

\* pushPackage: the API key must be present.
CheckAPIKey ==
    /\ pc = "url-ok"
    /\ IF cfg.APIKey = <<>>
       THEN Respond(RespNoAPIKey)
       ELSE pc' = "validated" /\ UNCHANGED <<resp, nresp, retErr>>
    /\ UNCHANGED <<cmdExecutor, proc, reqVars, cfg, version, packagePath, lookup,
                   calls, run, pureVars>>

\* pushPackage: the dry-run branch.
DryRunPreview ==
    /\ pc = "validated"
    /\ req.DryRun
    /\ Respond(RespDryRun(cfg, packagePath, version))
    /\ UNCHANGED <<cmdExecutor, proc, reqVars, cfg, version, packagePath, lookup,
                   calls, run, pureVars>>

\* A pushPackage that runs the command in a dry run as well.
Dispatch_IgnoringDryRun ==
    /\ pc = "validated"
    /\ calls' = Append(calls, [executor |-> getExecutor(cmdExecutor),
                               name |-> S_choco,
                               args |-> buildPushArgs(cfg, packagePath),
                               deadline |-> cfg.Timeout])
    /\ proc' = StartProcess(getExecutor(cmdExecutor), cfg.Timeout)
    /\ pc' = "dispatched"
    /\ UNCHANGED <<cmdExecutor, reqVars, cfg, version, packagePath, lookup,
                   run, resp, nresp, retErr, pureVars>>

\* pushPackage: the arguments are built and the executor's Run is called
\* with program choco under a deadline of cfg.Timeout seconds.
Dispatch ==
    /\ pc = "validated"
    /\ ~req.DryRun
    /\ calls' = Append(calls, [executor |-> getExecutor(cmdExecutor),
                               name |-> S_choco,
                               args |-> buildPushArgs(cfg, packagePath),
                               deadline |-> cfg.Timeout])
    /\ proc' = StartProcess(getExecutor(cmdExecutor), cfg.Timeout)
    /\ pc' = "dispatched"
    /\ UNCHANGED <<cmdExecutor, reqVars, cfg, version, packagePath, lookup,
                   run, resp, nresp, retErr, pureVars>>

\* A pushPackage that runs the command again when it failed.
Complete_Retry ==
    /\ pc = "dispatched"
    /\ proc # "running"
    /\ \E r \in RunResults(getExecutor(cmdExecutor), cfg.Timeout) \cap ProcResult(proc) :
          /\ run' = r
          /\ IF r.err # NoError
             THEN pc' = "validated" /\ UNCHANGED <<resp, nresp, retErr>>
             ELSE Respond(RespPushed(cfg, packagePath, version, r.output))
    /\ UNCHANGED <<cmdExecutor, proc, reqVars, cfg, version, packagePath, lookup,
                   calls, pureVars>>

\* The command ends by itself, with exit status 0 or 1.
ProcessExits ==
    /\ pc = "dispatched"
    /\ proc = "running"
    /\ proc' \in {"exited-0", "exited-1"}
    /\ UNCHANGED <<pc, cmdExecutor, reqVars, cfg, version, packagePath, lookup,
                   calls, run, resp, nresp, retErr, pureVars>>

\* A context without a deadline: nothing but the command itself ends the
\* command.
DeadlineExpires_NoDeadline ==
    /\ pc = "dispatched"
    /\ proc = "running"
    /\ FALSE
    /\ UNCHANGED vars

\* The deadline of execCtx passes while the command runs, and the command
\* is killed.
DeadlineExpires ==
    /\ pc = "dispatched"
    /\ proc = "running"
    /\ proc' = "killed"
    /\ UNCHANGED <<pc, cmdExecutor, reqVars, cfg, version, packagePath, lookup,
                   calls, run, resp, nresp, retErr, pureVars>>

\* pushPackage: Run returns and its result becomes the response.
Complete ==
    /\ pc = "dispatched"
    /\ proc # "running"
    /\ \E r \in RunResults(getExecutor(cmdExecutor), cfg.Timeout) \cap ProcResult(proc) :
          /\ run' = r
          /\ IF r.err # NoError
             THEN Respond(RespPushFailed(r.err, r.output))
             ELSE Respond(RespPushed(cfg, packagePath, version, r.output))
    /\ UNCHANGED <<cmdExecutor, proc, reqVars, cfg, version, packagePath, lookup,
                   calls, pureVars>>

\* The response has been handed to the host; the plugin keeps nothing of
\* the request.
Return ==
    /\ pc = "done"
    /\ pc' = "idle"
    /\ req' = None /\ envKey' = None /\ cfg' = None
    /\ version' = None /\ packagePath' = None /\ lookup' = None
    /\ calls' = <<>> /\ proc' = "none" /\ run' = None /\ resp' = None /\ nresp' = 0
    /\ retErr' = "nil"
    /\ UNCHANGED <<cmdExecutor, pureVars>>

Next ==
    \/ Receive \/ ParseConfig \/ UnhandledHook \/ Substitute \/ ValidatePath
    \/ ValidateURL \/ CheckAPIKey \/ DryRunPreview \/ Dispatch
    \/ ProcessExits \/ DeadlineExpires \/ Complete
    \/ Return

Spec == Init /\ [][Next]_vars

(***************************************************************************)
(* SpecPath: validatePackagePath applied to a bounded set of paths.         *)
(***************************************************************************)
InitPath ==
    /\ vpPath \in PathInputs
    /\ vpErr = NoError /\ called = FALSE
    /\ cmdExecutor = "nil" /\ PluginIdle /\ URLIdle /\ IPIdle /\ ValidateIdle

\* One call of validatePackagePath.
CallValidatePackagePath ==
    /\ ~called
    /\ vpErr' = validatePackagePath(vpPath)
    /\ called' = TRUE
    /\ UNCHANGED <<vpPath, vuURL, vuOut, viIP, viOut, validateVars, pluginVars>>

NextPath == CallValidatePackagePath

SpecPath == InitPath /\ [][NextPath]_vars

(***************************************************************************)
(* SpecURL: validateSourceURL applied to a bounded set of URLs, the          *)
(* resolver answering with any of DnsAnswers.                                *)
(***************************************************************************)
InitURL ==
    /\ vuURL \in URLInputs
    /\ vuOut = NoURLResult /\ called = FALSE
    /\ cmdExecutor = "nil" /\ PluginIdle /\ PathIdle /\ IPIdle /\ ValidateIdle

\* One call of validateSourceURL.
CallValidateSourceURL ==
    /\ ~called
    /\ \E answer \in DnsAnswers : vuOut' = validateSourceURL(vuURL, answer)
    /\ called' = TRUE
    /\ UNCHANGED <<vuURL, vpPath, vpErr, viIP, viOut, validateVars, pluginVars>>

NextURL == CallValidateSourceURL

SpecURL == InitURL /\ [][NextURL]_vars

(***************************************************************************)
(* SpecIP: isPrivateIP applied to a bounded set of addresses.                *)
(***************************************************************************)
InitIP ==
    /\ viIP \in IPInputs
    /\ viOut = FALSE /\ called = FALSE
    /\ cmdExecutor = "nil" /\ PluginIdle /\ PathIdle /\ URLIdle /\ ValidateIdle

\* One call of isPrivateIP.
CallIsPrivateIP ==
    /\ ~called
    /\ viOut' = isPrivateIP(viIP)
    /\ called' = TRUE
    /\ UNCHANGED <<viIP, vpPath, vpErr, vuURL, vuOut, validateVars, pluginVars>>

NextIP == CallIsPrivateIP

SpecIP == InitIP /\ [][NextIP]_vars

(***************************************************************************)
(* Validate: the configuration check.                                        *)
(***************************************************************************)
S_braces == <<"{", "{">>

\* One entry of ValidateResponse.Errors, as vb.AddError(field, message)
\* records it.
ValidationError(field, message) == [Field |-> field, Message |-> message]

\* vb.Build(): the response is valid when no error was added.
Build(errors) == [Valid |-> errors = <<>>, Errors |-> errors]

\* A package_path check that applies validatePackagePath to every
\* non-empty path, with or without a placeholder.
validatePathField_NoRelaxation(config) ==
    LET pathValue == GetString(config.package_path, <<>>, <<>>)
    IN  IF pathValue = <<>>
        THEN <<ValidationError("package_path", <<"package path is required">>)>>
        ELSE IF validatePackagePath(pathValue) # NoError
        THEN <<ValidationError("package_path", validatePackagePath(pathValue))>>
        ELSE <<>>

\* Validate, "Validate package_path": the errors it adds.
validatePathField(config) ==
    LET pathValue == GetString(config.package_path, <<>>, <<>>)
    IN  IF pathValue = <<>>
        THEN <<ValidationError("package_path", <<"package path is required">>)>>
        ELSE IF ~Contains(pathValue, S_braces)
        THEN IF validatePackagePath(pathValue) # NoError
             THEN <<ValidationError("package_path", validatePackagePath(pathValue))>>
             ELSE <<>>
        ELSE IF ~HasSuffix(ToLower(pathValue), S_nupkg)
        THEN <<ValidationError("package_path", <<"package path must end with .nupkg">>)>>
        ELSE <<>>

\* Validate, "Validate source URL if provided": the errors it adds, where
\* `answer` is what the resolver answers if validateSourceURL asks it.
validateSourceField(config, answer) ==
    LET source == GetString(config.source, <<>>, DefaultSource)
    IN  IF source # <<>> /\ ~Contains(source, S_braces)
           /\ validateSourceURL(source, answer).err # NoError
        THEN <<ValidationError("source", validateSourceURL(source, answer).err)>>
        ELSE <<>>

\* Validate, "Validate timeout is positive": the errors it adds.
validateTimeoutField(config) ==
    IF GetInt(config.timeout, DefaultTimeout) <= 0
    THEN <<ValidationError("timeout", <<"timeout must be a positive integer">>)>>
    ELSE <<>>

\* A Validate that returns at the first field in error.
Validate_FirstErrorOnly(config, answer) ==
    IF validatePathField(config) # <<>> THEN Build(validatePathField(config))
    ELSE IF validateSourceField(config, answer) # <<>>
    THEN Build(validateSourceField(config, answer))
    ELSE Build(validateTimeoutField(config))

\* ChocolateyPlugin.Validate: the three checks in order, each adding its
\* error to the builder, and the response the builder makes.
Validate(config, answer) ==
    Build(validatePathField(config)
          \o validateSourceField(config, answer)
          \o validateTimeoutField(config))

(***************************************************************************)
(* SpecValidate: Validate applied to a bounded set of config bags, the       *)
(* resolver answering with any of ExecDnsAnswers.                            *)
(***************************************************************************)
\* package_path entries: none, the empty string, a package, another kind of
\* file, a traversal, and templates: the one of the tests, one without the
\* suffix, one that traverses and ends in capitals, and one longer than
\* MaxPathLen.
ValidatePathOpts ==
    { <<>>, << <<>> >>,
      << T_pkg \o <<".", "1", ".", "0", ".", "0">> \o S_nupkg >>,
      << <<"m", "y", "p", "a", "c", "k", "a", "g", "e", ".", "z", "i", "p">> >>,
      << S_dotdot \o <<"/">> \o T_pkg \o S_nupkg >>,
      << <<"m", "y", "p", "a", "c", "k", "a", "g", "e", ".">> \o S_versionPH \o S_nupkg >>,
      << T_pkg \o <<".">> \o S_versionPH \o <<".", "z", "i", "p">> >>,
      << S_dotdot \o <<"/">> \o S_tagPH \o <<".", "N", "U", "P", "K", "G">> >>,
      << Repeat("a", MaxPathLen) \o S_versionPH \o S_nupkg >> }

\* source entries: none, the empty string, a plain-http host, localhost,
\* and a URL with a placeholder.
ValidateSourceOpts ==
    { <<>>, << <<>> >>,
      << S_http \o <<":", "/", "/", "e", "v", "i", "l", ".", "c", "o", "m", "/">> >>,
      << S_http \o <<":", "/", "/">> \o S_localhost \o <<":", "8", "0", "8", "0", "/">> >>,
      << S_http \o <<":", "/", "/">> \o S_braces \o <<"h", "o", "s", "t", "}", "}", "/">> >> }

ValidateTimeoutOpts == { <<>>, <<0>>, <<-1>>, <<600>> }

ValidateConfigs ==
    [ package_path : ValidatePathOpts, source : ValidateSourceOpts,
      timeout : ValidateTimeoutOpts ]

InitValidate ==
    /\ vcConfig \in ValidateConfigs
    /\ vcAnswer = None /\ vcResp = None /\ called = FALSE
    /\ cmdExecutor = "nil" /\ PluginIdle /\ PathIdle /\ URLIdle /\ IPIdle

\* One call of Validate.
CallValidate ==
    /\ ~called
    /\ \E answer \in ExecDnsAnswers :
          /\ vcAnswer' = answer
          /\ vcResp' = Validate(vcConfig, answer)
    /\ called' = TRUE
    /\ UNCHANGED <<vcConfig, vpPath, vpErr, vuURL, vuOut, viIP, viOut, pluginVars>>

NextValidate == CallValidate

SpecValidate == InitValidate /\ [][NextValidate]_vars

(***************************************************************************)
(* Properties of validatePackagePath (SpecPath).                             *)
(***************************************************************************)
\* The "/"-separated segments of the path under validation.
PathSegs == Split(vpPath, Separator)

\* Segment k is an ordinary name: not empty, not "." and not "..".
IsNameSeg(k) == PathSegs[k] \notin {<<>>, <<".">>, S_dotdot}

\* The path has ".." as one of its segments.
HasDotDotSegment == \E k \in 1..Len(PathSegs) : PathSegs[k] = S_dotdot

\* The path is relative and climbs above the directory it starts in: some
\* ".." segment has no earlier name segment left to cancel it.
ClimbsOut ==
    /\ vpPath # <<>>
    /\ vpPath[1] # Separator
    /\ \E k \in 1..Len(PathSegs) :
          /\ PathSegs[k] = S_dotdot
          /\ Cardinality({j \in 1..(k - 1) : IsNameSeg(j)})
                <= Cardinality({j \in 1..(k - 1) : PathSegs[j] = S_dotdot})

\* The path is absolute.
IsAbsolute == vpPath # <<>> /\ vpPath[1] = Separator

C6_AcceptedStaysInside ==
    (called /\ vpErr = NoError) => (~IsAbsolute /\ ~ClimbsOut)

(***************************************************************************)
(* Properties of validateSourceURL (SpecURL).                                *)
(***************************************************************************)
\* The scheme and hostname of the URL under validation, as url.Parse and
\* URL.Hostname give them.
URLParsed == urlParse(vuURL)
URLScheme == URLParsed.scheme
URLHostname == Hostname(URLParsed.host)
URLIsLocal == URLHostname \in {S_localhost, S_127001, S_v6loop}

\* The rejection that names the scheme.
OnlyHTTPSError == <<"only HTTPS URLs are allowed (got ", URLScheme, ")">>

\* C7 as stated: for every source URL whose hostname is not one of the three
\* local names, the URL is accepted only with scheme https and every other
\* scheme, the empty one included, is rejected with "only HTTPS URLs are
\* allowed (got <scheme>)"; for the local names http and https are accepted
\* without a lookup.
C7_NonLocalNeedsHTTPS ==
    called =>
        /\ ~URLIsLocal =>
              /\ vuOut.err = NoError => URLScheme = S_https
              /\ URLScheme # S_https => vuOut.err = OnlyHTTPSError
        /\ (URLIsLocal /\ URLScheme \in {S_http, S_https}) =>
              (vuOut.err = NoError /\ ~vuOut.lookedUp)

\* C7 as amended: the same for every non-empty source URL that url.Parse
\* accepts; the empty URL and a URL that does not parse are rejected too,
\* with an error of their own and without a lookup.
C7_ParsedNonLocalNeedsHTTPS ==
    called =>
        /\ ~URLIsLocal =>
              /\ vuOut.err = NoError => URLScheme = S_https
              /\ (vuURL # <<>> /\ URLParsed.err = NoError /\ URLScheme # S_https)
                    => (vuOut.err = OnlyHTTPSError /\ ~vuOut.lookedUp)
              /\ vuURL = <<>> => (vuOut.err = ErrURLEmpty /\ ~vuOut.lookedUp)
              /\ (vuURL # <<>> /\ URLParsed.err # NoError)
                    => (vuOut.err = <<"invalid URL: ">> \o URLParsed.err
                        /\ ~vuOut.lookedUp)
        /\ (URLIsLocal /\ URLScheme \in {S_http, S_https}) =>
              (vuOut.err = NoError /\ ~vuOut.lookedUp)

\* http://evil.com has been rejected with the error that names http.
C7_Witness ==
    /\ called
    /\ vuURL = S_http \o <<":", "/", "/", "e", "v", "i", "l", ".", "c", "o", "m">>
    /\ vuOut.err = <<"only HTTPS URLs are allowed (got ", S_http, ")">>

\* An address is public: none of the listed networks and none of the
\* generic classes holds of it.
PublicAddr(ip) == ~isPrivateIP(ip)

\* C8: for a host that is not local, validateSourceURL accepts only if the
\* lookup was made, succeeded, and every address it returned is public; a
\* failed lookup is an error and one private address rejects the URL.
C8_FailsClosed ==
    (called /\ ~URLIsLocal) =>
        /\ vuOut.err = NoError =>
              /\ vuOut.lookedUp
              /\ Len(vuOut.ips) >= 1
              /\ \A k \in 1..Len(vuOut.ips) : PublicAddr(vuOut.ips[k])
        /\ (vuOut.lookedUp /\ vuOut.ips = <<>>) => vuOut.err = ErrURLResolve
        /\ (\E k \in 1..Len(vuOut.ips) : ~PublicAddr(vuOut.ips[k]))
              => vuOut.err = ErrURLPrivate

\* An https URL of a non-local host was rejected because the second of its
\* two addresses is the metadata address, the first being public.
C8_Witness ==
    /\ called
    /\ ~URLIsLocal
    /\ vuOut.lookedUp
    /\ vuOut.ips = << <<8, 8, 8, 8>>, IP_v4metadata >>
    /\ vuOut.err = ErrURLPrivate

(***************************************************************************)
(* Properties of isPrivateIP (SpecIP).                                       *)
(***************************************************************************)
\* The IPv4 address a.b.c.d lies in one of the networks the claim lists, or
\* in the generic link-local multicast class 224.0.0.0/24.
V4Reserved(a, b, c, d) ==
    \/ a = 10
    \/ a = 172 /\ b \in 16..31
    \/ a = 192 /\ b = 168
    \/ a = 127
    \/ a = 169 /\ b = 254
    \/ a = 0
    \/ a = 224 /\ b = 0 /\ c = 0

\* The 16-byte address is fd00:ec2::254, ::1, in fe80::/10, in ff02::/16 up
\* to its flag bits, or in fc00::/7.
V6Reserved(ip) ==
    \/ ip = <<253, 0, 14, 194, 0, 0, 0, 0, 0, 0, 0, 0, 0, 0, 2, 84>>
    \/ ip = <<0, 0, 0, 0, 0, 0, 0, 0, 0, 0, 0, 0, 0, 0, 0, 1>>
    \/ ip[1] = 254 /\ ip[2] \in 128..191
    \/ ip[1] = 255 /\ ip[2] % 16 = 2
    \/ ip[1] \in {252, 253}

IsV4Mapped(ip) ==
    Len(ip) = 16 /\ (\A i \in 1..10 : ip[i] = 0) /\ ip[11] = 255 /\ ip[12] = 255

\* The address is reserved, by its IPv4 form when it has one.
Reserved(ip) ==
    IF Len(ip) = 4 THEN V4Reserved(ip[1], ip[2], ip[3], ip[4])
    ELSE IF IsV4Mapped(ip) THEN V4Reserved(ip[13], ip[14], ip[15], ip[16])
    ELSE V6Reserved(ip)

\* C9: isPrivateIP is true of exactly the addresses in 10/8, 172.16/12,
\* 192.168/16, 127/8, 169.254/16, 0/8, fd00:ec2::254 and the addresses of the
\* loopback, link-local and private classes, and false of every other one.
C9_PrivateIffReserved == called => (viOut <=> Reserved(viIP))

\* The metadata address 169.254.169.254 has been classified private.
C9_Witness == called /\ viIP = <<169, 254, 169, 254>> /\ viOut = TRUE

(***************************************************************************)
(* Properties of Execute (Spec).                                             *)
(***************************************************************************)
\* What the request in progress resolves to, read off the request and the
\* environment.
ReqPostPublish == req.Hook = "post-publish"
ReqKey == IF req.Config.api_key # <<>> THEN req.Config.api_key[1] ELSE envKey
ReqSource ==
    IF req.Config.source # <<>> THEN req.Config.source[1]
    ELSE <<"h", "t", "t", "p", "s", ":", "/", "/", "p", "u", "s", "h", ".", "c",
           "h", "o", "c", "o", "l", "a", "t", "e", "y", ".", "o", "r", "g", "/">>
ReqTimeout == IF req.Config.timeout # <<>> THEN req.Config.timeout[1] ELSE 300
ReqForce == req.Config.force = <<TRUE>>
ReqVersion ==
    LET v == req.Context.Version
    IN  IF v # <<>> /\ v[1] = "v" THEN SubSeq(v, 2, Len(v)) ELSE v
ReqTemplate ==
    IF req.Config.package_path # <<>> THEN req.Config.package_path[1] ELSE <<>>
\* The package path after {{version}} and then {{tag}} are replaced.
ReqPath ==
    ReplaceAll(ReplaceAll(ReqTemplate, <<"{", "{", "v", "e", "r", "s", "i", "o", "n", "}", "}">>,
                          ReqVersion),
               <<"{", "{", "t", "a", "g", "}", "}">>, req.Context.TagName)

\* The substituted path passes validatePackagePath.
ReqPathValid == validatePackagePath(ReqPath) = NoError
\* The source passes validateSourceURL under the answer the resolver gave
\* when it was asked.
ReqSourceValid ==
    /\ lookup # None
    /\ validateSourceURL(ReqSource,
                         IF lookup.lookedUp /\ lookup.ips # <<>>
                         THEN [ok |-> TRUE, ips |-> lookup.ips]
                         ELSE DnsFailure).err = NoError
ReqAllValid == ReqPathValid /\ ReqSourceValid /\ ReqKey # <<>>

\* C1: the executor has been invoked only if the hook is post-publish,
\* dry-run is false, the package path after substitution passes
\* validatePackagePath, the source passes validateSourceURL and the resolved
\* API key is not empty.
C1_InvokedOnlyWhenValid ==
    calls # <<>> =>
        /\ ReqPostPublish
        /\ ~req.DryRun
        /\ ReqPathValid
        /\ ReqSourceValid
        /\ ReqKey # <<>>

\* The executor was invoked for a template with {{tag}}, with the tag in the
\* path it was given.
C1_Witness ==
    /\ calls # <<>>
    /\ ReqTemplate = <<"{", "{", "t", "a", "g", "}", "}", "/", "p", "k", "g",
                       ".", "n", "u", "p", "k", "g">>
    /\ calls[1].args[2] = <<"v", "2", ".", "1", ".", "0", "/", "p", "k", "g",
                            ".", "n", "u", "p", "k", "g">>

\* C2: a post-publish dry-run request never invokes the executor, and when
\* its substituted path and source pass validation and its API key is not
\* empty the response is Success=true, "Would push Chocolatey package", with
\* the substituted path, the source, the version without its leading v, the
\* force flag and the timeout.
C2_DryRunPreview ==
    (pc # "idle" /\ ReqPostPublish /\ req.DryRun) =>
        /\ calls = <<>>
        /\ (pc = "done" /\ ReqAllValid) =>
              /\ resp.Success = TRUE
              /\ resp.Message = <<"Would push Chocolatey package">>
              /\ resp.Error = <<>>
              /\ resp.Outputs = [package_path |-> ReqPath, source |-> ReqSource,
                                 ver |-> ReqVersion, force |-> ReqForce,
                                 timeout |-> ReqTimeout]

\* A dry run of pkg.{{version}}.nupkg at version v2.1.0 was answered with a
\* preview of pkg.2.1.0.nupkg.
C2_Witness ==
    /\ pc = "done"
    /\ ReqPostPublish /\ req.DryRun
    /\ calls = <<>>
    /\ resp.Success = TRUE
    /\ resp.Outputs # <<>>
    /\ resp.Outputs.ver = <<"2", ".", "1", ".", "0">>
    /\ resp.Outputs.package_path = <<"p", "k", "g", ".", "2", ".", "1", ".", "0",
                                     ".", "n", "u", "p", "k", "g">>

\* The decimal form of the timeouts a request can carry.
TimeoutText ==
    IF ReqTimeout = 300 THEN <<"3", "0", "0">>
    ELSE IF ReqTimeout = 600 THEN <<"6", "0", "0">>
    ELSE <<"0">>

\* C3: every invocation is program choco with the arguments push, <path>,
\* --api-key, <key>, --source, <url>, --timeout, <timeout in decimal>, in
\* this order, followed by --force exactly when the force flag is set.
C3_ExactArguments ==
    \A k \in 1..Len(calls) :
        /\ calls[k].name = <<"c", "h", "o", "c", "o">>
        /\ calls[k].args =
              << <<"p", "u", "s", "h">>, ReqPath,
                 <<"-", "-", "a", "p", "i", "-", "k", "e", "y">>, ReqKey,
                 <<"-", "-", "s", "o", "u", "r", "c", "e">>, ReqSource,
                 <<"-", "-", "t", "i", "m", "e", "o", "u", "t">>, TimeoutText >>
              \o (IF ReqForce THEN << <<"-", "-", "f", "o", "r", "c", "e">> >> ELSE <<>>)

\* choco push pkg.1.0.0.nupkg --api-key k1 --source
\* https://push.chocolatey.org/ --timeout 300 has been issued.
C3_Witness ==
    /\ Len(calls) = 1
    /\ calls[1].name = <<"c", "h", "o", "c", "o">>
    /\ calls[1].args =
          << <<"p", "u", "s", "h">>,
             <<"p", "k", "g", ".", "1", ".", "0", ".", "0", ".", "n", "u", "p", "k", "g">>,
             <<"-", "-", "a", "p", "i", "-", "k", "e", "y">>, <<"k", "1">>,
             <<"-", "-", "s", "o", "u", "r", "c", "e">>,
             <<"h", "t", "t", "p", "s", ":", "/", "/", "p", "u", "s", "h", ".", "c",
               "h", "o", "c", "o", "l", "a", "t", "e", "y", ".", "o", "r", "g", "/">>,
             <<"-", "-", "t", "i", "m", "e", "o", "u", "t">>, <<"3", "0", "0">> >>

\* C4: within one request the executor is invoked at most once, and by the
\* time the response is returned exactly once for a post-publish request
\* that is not a dry run and passes all validation, whatever Run returned;
\* the failure of the push is then the one response of the request.
C4_NoRetry ==
    /\ Len(calls) <= 1
    /\ (pc = "done" /\ ReqPostPublish /\ ~req.DryRun /\ ReqAllValid) =>
          /\ Len(calls) = 1
          /\ nresp = 1
          /\ run.err # NoError =>
                (resp.Success = FALSE
                 /\ resp.Error = <<"choco push failed: ">> \o run.err
                                  \o <<"\nOutput: ", run.output>>)

\* A push that failed was reported after a single invocation.
C4_Witness ==
    /\ pc = "done"
    /\ Len(calls) = 1
    /\ run # None
    /\ run.err = <<"exit status 1">>
    /\ resp.Success = FALSE
    /\ nresp = 1

\* C10: Execute returns one response and a nil error for every request, and
\* never more than one; an invalid path, an invalid source, a missing API key
\* and a failure of the external tool are each a response with Success=false
\* and an error text.
C10_OneStructuredResponse ==
    /\ nresp <= 1
    /\ retErr = "nil"
    /\ pc = "done" =>
          /\ nresp = 1
          /\ resp # None
          /\ resp.Success \in BOOLEAN
          /\ (ReqPostPublish /\ (~ReqAllValid \/ (run # None /\ run.err # NoError)))
                => (resp.Success = FALSE /\ resp.Error # <<>>)
    /\ pc # "done" => nresp = 0

\* A request without an API key was answered with the failed response that
\* says so, and a nil error.
C10_Witness ==
    /\ pc = "done"
    /\ nresp = 1
    /\ retErr = "nil"
    /\ resp.Success = FALSE
    /\ resp.Error = <<"API key is required: set api_key in config or CHOCOLATEY_API_KEY environment variable">>

\* C11: a request whose hook is not post-publish is answered with
\* Success=true and "Hook <hook> not handled" whatever its config and
\* dry-run flag are; its path, source and API key are never validated and
\* the executor is not invoked.
C11_UnhandledHookSucceeds ==
    (pc # "idle" /\ req.Hook # "post-publish") =>
        /\ calls = <<>>
        /\ packagePath = None /\ version = None /\ lookup = None
        /\ pc \in {"received", "config-resolved", "done"}
        /\ pc = "done" =>
              resp = [Success |-> TRUE,
                      Message |-> <<"Hook ", req.Hook, " not handled">>,
                      Error |-> <<>>, Outputs |-> <<>>]

\* A pre-publish request with a traversing package path, a plain-http source
\* and no API key was answered with success.
C11_Witness ==
    /\ pc = "done"
    /\ req.Hook = "pre-publish"
    /\ ~req.DryRun
    /\ req.Config.package_path = << <<".", ".", "/", "p", "k", "g", ".", "n", "u", "p", "k", "g">> >>
    /\ req.Config.source # <<>>
    /\ req.Config.source[1] = <<"h", "t", "t", "p", ":", "/", "/", "e", "v", "i", "l", ".", "c", "o", "m", "/">>
    /\ req.Config.api_key = <<>> /\ envKey = <<>>
    /\ resp.Success = TRUE
    /\ resp.Message = <<"Hook ", "pre-publish", " not handled">>

\* C12: the resolved API key is the explicit api_key when the config bag has
\* one, else the value of CHOCOLATEY_API_KEY, else empty; source,
\* package_path, timeout and force are the explicit value or the default
\* (https://push.chocolatey.org/, empty, 300, false) whatever the
\* environment holds.
C12_ConfigPrecedence ==
    cfg # None =>
        /\ cfg.APIKey = (IF req.Config.api_key # <<>> THEN req.Config.api_key[1]
                         ELSE IF envKey # <<>> THEN envKey ELSE <<>>)
        /\ cfg.Source = ReqSource
        /\ cfg.PackagePath = ReqTemplate
        /\ cfg.Timeout = ReqTimeout
        /\ cfg.Force = ReqForce

\* A bag with api_key k1 and nothing else was resolved, with
\* CHOCOLATEY_API_KEY=e2 in the environment, to key k1 and the defaults.
C12_Witness ==
    /\ cfg # None
    /\ req.Config.api_key = << <<"k", "1">> >>
    /\ envKey = <<"e", "2">>
    /\ req.Config.source = <<>> /\ req.Config.timeout = <<>>
    /\ req.Config.force = <<>> /\ req.Config.package_path = <<>>
    /\ cfg.APIKey = <<"k", "1">>
    /\ cfg.Timeout = 300 /\ cfg.Force = FALSE /\ cfg.PackagePath = <<>>
    /\ cfg.Source = <<"h", "t", "t", "p", "s", ":", "/", "/", "p", "u", "s", "h", ".",
                      "c", "h", "o", "c", "o", "l", "a", "t", "e", "y", ".", "o", "r",
                      "g", "/">>

\* C13: a post-publish request whose path and source are valid and whose
\* resolved API key is empty is answered, dry run or not, with Success=false
\* and the error "API key is required: set api_key in config or
\* CHOCOLATEY_API_KEY environment variable", and the executor is not
\* invoked for it.
C13_MissingKeyIsDistinctFailure ==
    (pc # "idle" /\ ReqPostPublish /\ ReqKey = <<>>) =>
        /\ calls = <<>>
        /\ (pc = "done" /\ ReqPathValid /\ ReqSourceValid) =>
              resp = [Success |-> FALSE, Message |-> <<>>,
                      Error |-> <<"API key is required: set api_key in config or CHOCOLATEY_API_KEY environment variable">>,
                      Outputs |-> <<>>]

\* A dry run without an API key was answered with the missing-key failure.
C13_Witness ==
    /\ pc = "done"
    /\ ReqPostPublish /\ req.DryRun
    /\ ReqKey = <<>>
    /\ ReqPathValid /\ ReqSourceValid
    /\ calls = <<>>
    /\ resp.Success = FALSE
    /\ resp.Error = <<"API key is required: set api_key in config or CHOCOLATEY_API_KEY environment variable">>

\* C14: when Run returns an error the response is Success=false, its error
\* text is "choco push failed: " followed by the executor's error and the
\* captured output, and the error Execute returns is nil.
C14_PushFailureReported ==
    (pc = "done" /\ run # None /\ run.err # NoError) =>
        /\ resp.Success = FALSE
        /\ Len(resp.Error) = Len(run.err) + 3
        /\ resp.Error[1] = "choco push failed: "
        /\ SubSeq(resp.Error, 2, Len(run.err) + 1) = run.err
        /\ resp.Error[Len(resp.Error)] = run.output
        /\ resp.Outputs = <<>>
        /\ retErr = "nil"

\* The mock executor exited with status 1 and output "exists", and both are
\* in the failed response.
C14_Witness ==
    /\ pc = "done"
    /\ cmdExecutor = "mock"
    /\ run # None
    /\ run.err = <<"exit status 1">>
    /\ resp.Error = <<"choco push failed: ", "exit status 1", "\nOutput: ",
                      <<"e", "x", "i", "s", "t", "s">> >>
    /\ retErr = "nil"

\* C15 as stated: when Run succeeds the response is a success whose outputs
\* hold what the dry-run preview holds (package path, source, version
\* without its leading v, force flag, timeout) and the captured output.
C15_SuccessEmbedsPreview ==
    (pc = "done" /\ run # None /\ run.err = NoError) =>
        /\ resp.Success = TRUE
        /\ DOMAIN resp.Outputs =
              {"package_path", "source", "ver", "force", "timeout", "output"}
        /\ resp.Outputs = [package_path |-> ReqPath, source |-> ReqSource,
                           ver |-> ReqVersion, force |-> ReqForce,
                           timeout |-> ReqTimeout, output |-> run.output]

\* C15 as amended: when Run succeeds the response is a success whose outputs
\* hold the package path, the source, the version without its leading v and
\* the captured output; the force flag and the timeout of the preview are
\* not among them.
C15_SuccessOutputs ==
    (pc = "done" /\ run # None /\ run.err = NoError) =>
        /\ resp.Success = TRUE
        /\ resp.Error = <<>>
        /\ resp.Message = <<"Successfully pushed Chocolatey package ", ReqPath,
                            " to ", ReqSource>>
        /\ DOMAIN resp.Outputs = {"package_path", "source", "ver", "output"}
        /\ resp.Outputs = [package_path |-> ReqPath, source |-> ReqSource,
                           ver |-> ReqVersion, output |-> run.output]

\* A forced push with timeout 600 succeeded with output "ok"; the response
\* holds the path, the source, the version and the output.
C15_Witness ==
    /\ pc = "done"
    /\ run # None /\ run.err = NoError
    /\ ReqForce /\ ReqTimeout = 600
    /\ resp.Success = TRUE
    /\ DOMAIN resp.Outputs = {"package_path", "source", "ver", "output"}
    /\ resp.Outputs.output = <<"o", "k">>
    /\ resp.Outputs.ver = <<"2", ".", "1", ".", "0">>

(***************************************************************************)
(* SpecLive: Spec with the progress the executor's context gives.  The      *)
(* deadline of a running command passes, and Run returns once the command   *)
(* is no longer running.  Nothing makes the command end by itself.          *)
(***************************************************************************)
SpecLive == Spec /\ WF_vars(DeadlineExpires) /\ WF_vars(Complete)

C17_TimeoutPositive ==
    /\ cfg # None => cfg.Timeout > 0
    /\ \A k \in 1..Len(calls) :
          /\ calls[k].deadline > 0
          /\ calls[k].args[8] # <<"0">>

(***************************************************************************)
(* SpecSubst: pushPackage from a resolved configuration, for package path    *)
(* templates given by their parts.                                           *)
(***************************************************************************)
\* A template is a sequence of parts: literal text, {{version}} or {{tag}}.
Lit(t) == [k |-> "lit", t |-> t]
PartV == [k |-> "version", t |-> <<>>]
PartT == [k |-> "tag", t |-> <<>>]

SubstTemplates ==
    { << Lit(<<"p", "k", "g", ".", "1", ".", "0", ".", "0", ".", "n", "u", "p", "k", "g">>) >>,
      << Lit(<<"m", "y", "p", "a", "c", "k", "a", "g", "e", ".">>), PartV,
         Lit(<<".", "n", "u", "p", "k", "g">>) >>,
      << PartV, Lit(<<"/", "p", "k", "g", ".">>), PartV,
         Lit(<<".", "n", "u", "p", "k", "g">>) >>,
      << PartT, Lit(<<"/", "p", "k", "g", ".">>), PartV,
         Lit(<<".", "n", "u", "p", "k", "g">>) >>,
      << PartT, Lit(<<"/">>), PartT, Lit(<<".", "n", "u", "p", "k", "g">>) >>,
      << Lit(<<"{", "{", "V", "e", "r", "s", "i", "o", "n", "}", "}", ".", "n", "u", "p", "k", "g">>) >> }

\* The text of a template, and the text it has when its placeholders stand
\* for ver and tag.
RECURSIVE FillParts(_, _, _)
FillParts(parts, ver, tag) ==
    IF parts = <<>> THEN <<>>
    ELSE (CASE Head(parts).k = "lit" -> Head(parts).t
            [] Head(parts).k = "version" -> ver
            [] Head(parts).k = "tag" -> tag)
         \o FillParts(Tail(parts), ver, tag)

TemplateText(parts) ==
    FillParts(parts, <<"{", "{", "v", "e", "r", "s", "i", "o", "n", "}", "}">>,
              <<"{", "{", "t", "a", "g", "}", "}">>)

SubstVersions ==
    { <<"v", "2", ".", "1", ".", "0">>, <<"1", ".", "0", ".", "0">>,
      <<"v", "v", "1">>, <<"v">>, <<"{", "{", "t", "a", "g", "}", "}">> }
SubstTags ==
    { <<"v", "2", ".", "1", ".", "0">>, <<".", ".", "/", ".", ".">>,
      <<"{", "{", "v", "e", "r", "s", "i", "o", "n", "}", "}">> }

SubstRequests ==
    { [ Hook |-> HookPostPublish,
        Config |-> [ package_path |-> << TemplateText(parts) >>,
                     api_key |-> << <<"k", "1">> >>,
                     source |-> << S_http \o <<":", "/", "/">> \o S_localhost
                                   \o <<":", "8", "0", "8", "0", "/">> >>,
                     timeout |-> <<>>, force |-> <<>> ],
        Context |-> [ Version |-> v, TagName |-> t ],
        DryRun |-> FALSE ] :
      parts \in SubstTemplates, v \in SubstVersions, t \in SubstTags }

\* Execute has resolved the configuration of one of the requests.
InitSubst ==
    /\ cmdExecutor = "mock"
    /\ pc = "config-resolved"
    /\ req \in SubstRequests
    /\ envKey = <<>>
    /\ cfg = parseConfig(req.Config, envKey)
    /\ version = None /\ packagePath = None /\ lookup = None
    /\ calls = <<>> /\ proc = "none" /\ run = None
    /\ resp = None /\ nresp = 0 /\ retErr = "nil"
    /\ PathIdle /\ URLIdle /\ IPIdle /\ ValidateIdle /\ called = FALSE

NextSubst ==
    \/ Substitute \/ ValidatePath \/ ValidateURL \/ CheckAPIKey \/ Dispatch
    \/ Complete

SpecSubst == InitSubst /\ [][NextSubst]_vars

\* The parts of the template of the request in progress.
ReqParts == CHOOSE parts \in SubstTemplates : TemplateText(parts) = ReqTemplate

\* The path the code is to work with, given the text that stands for
\* {{version}}: it is what pushPackage holds once it has substituted, what
\* validatePackagePath decides on and what Run is given.
PathIs(expected) ==
    /\ packagePath # None => packagePath = expected
    /\ pc \in {"path-ok", "url-ok", "validated", "dispatched"}
          => validatePackagePath(expected) = NoError
    /\ (pc = "done" /\ calls = <<>>) =>
          resp = [Success |-> FALSE, Message |-> <<>>,
                  Error |-> <<"invalid package path: ">>
                            \o validatePackagePath(expected),
                  Outputs |-> <<>>]
    /\ \A k \in 1..Len(calls) : calls[k].args[2] = expected

\* C18 as stated: every {{version}} of the template is replaced by the
\* version without one leading v and every {{tag}} by the tag name, before
\* the path is validated and before it is given to Run; a template without
\* placeholders is unchanged.
C18_EveryPlaceholderReplaced ==
    PathIs(FillParts(ReqParts, ReqVersion, req.Context.TagName))

\* C18 as amended: {{version}} is replaced first and {{tag}} second, in the
\* result of the first: every {{version}} of the template becomes the
\* version without one leading v, except that a version that is the text
\* {{tag}} becomes the tag name as well; every {{tag}} of the template
\* becomes the tag name, and a {{version}} inside the tag name stays.
C18_VersionThenTag ==
    PathIs(FillParts(ReqParts,
                     IF ReqVersion = <<"{", "{", "t", "a", "g", "}", "}">>
                     THEN req.Context.TagName ELSE ReqVersion,
                     req.Context.TagName))

\* mypackage.{{version}}.nupkg at version v2.1.0 was given to Run as
\* mypackage.2.1.0.nupkg.
C18_Witness ==
    /\ ReqTemplate = <<"m", "y", "p", "a", "c", "k", "a", "g", "e", ".", "{", "{", "v",
                       "e", "r", "s", "i", "o", "n", "}", "}", ".", "n", "u", "p", "k", "g">>
    /\ req.Context.Version = <<"v", "2", ".", "1", ".", "0">>
    /\ Len(calls) = 1
    /\ calls[1].args[2] = <<"m", "y", "p", "a", "c", "k", "a", "g", "e", ".", "2", ".",
                            "1", ".", "0", ".", "n", "u", "p", "k", "g">>
    /\ packagePath = calls[1].args[2]

(***************************************************************************)
(* Further properties of validatePackagePath (SpecPath).                     *)
(***************************************************************************)
\* The path ends in .nupkg in some capitalization.
EndsNupkgAnyCase ==
    /\ Len(vpPath) >= 6
    /\ LET e == SubSeq(vpPath, Len(vpPath) - 5, Len(vpPath))
       IN  /\ e[1] = "."
           /\ e[2] \in {"n", "N"} /\ e[3] \in {"u", "U"} /\ e[4] \in {"p", "P"}
           /\ e[5] \in {"k", "K"} /\ e[6] \in {"g", "G"}

\* C19: validatePackagePath rejects every path that does not end in .nupkg
\* in some capitalization, no path that does is rejected for its suffix,
\* and PKG.NUPKG, pkg.NuPkg and mypackage.1.0.0.NUPKG are accepted.
C19_SuffixAnyCase ==
    called =>
        /\ ~EndsNupkgAnyCase => vpErr # NoError
        /\ EndsNupkgAnyCase => vpErr # <<"package path must end with .nupkg">>
        /\ vpPath \in { <<"P", "K", "G", ".", "N", "U", "P", "K", "G">>,
                        <<"p", "k", "g", ".", "N", "u", "P", "k", "g">>,
                        <<"m", "y", "p", "a", "c", "k", "a", "g", "e", ".", "1", ".",
                          "0", ".", "0", ".", "N", "U", "P", "K", "G">> }
              => vpErr = NoError

\* PKG.NUPKG has been accepted.
C19_Witness ==
    /\ called
    /\ vpPath = <<"P", "K", "G", ".", "N", "U", "P", "K", "G">>
    /\ vpErr = NoError

\* A character of the class the pattern allows: a letter, a digit, ".", "_",
\* "-" or "/".
SafeChar(c) ==
    \/ c \in {"a", "b", "c", "d", "e", "f", "g", "h", "i", "j", "k", "l", "m", "n", "o",
              "p", "q", "r", "s", "t", "u", "v", "w", "x", "y", "z"}
    \/ c \in {"A", "B", "C", "D", "E", "F", "G", "H", "I", "J", "K", "L", "M", "N", "O",
              "P", "Q", "R", "S", "T", "U", "V", "W", "X", "Y", "Z"}
    \/ c \in {"0", "1", "2", "3", "4", "5", "6", "7", "8", "9"}
    \/ c \in {".", "_", "-", "/"}

\* C20: a path validatePackagePath accepts has no character outside letters,
\* digits, ".", "_", "-" and "/", in its file name or in any directory, and
\* its file name starts with a letter or a digit.
C20_AcceptedHasSafeChars ==
    (called /\ vpErr = NoError) =>
        /\ \A i \in 1..Len(vpPath) : SafeChar(vpPath[i])
        /\ LET name == PathSegs[Len(PathSegs)]
           IN  name # <<>> /\ SafeChar(name[1]) /\ name[1] \notin {".", "_", "-", "/"}

(***************************************************************************)
(* The API key and the responses of Execute.                                 *)
(***************************************************************************)
\* The answer the resolver gave to the request in progress.
LookupAnswer ==
    IF lookup # None /\ lookup.lookedUp /\ lookup.ips # <<>>
    THEN [ok |-> TRUE, ips |-> lookup.ips]
    ELSE DnsFailure

\* The response to a request that did not reach the executor, written from
\* the request without its api_key entry and without the environment: the
\* path failure, else the source failure, else the dry-run preview.
KeyFreeResponse ==
    IF ~ReqPathValid
    THEN [Success |-> FALSE, Message |-> <<>>,
          Error |-> <<"invalid package path: ">> \o validatePackagePath(ReqPath),
          Outputs |-> <<>>]
    ELSE IF ~ReqSourceValid
    THEN [Success |-> FALSE, Message |-> <<>>,
          Error |-> <<"invalid source URL: ">>
                        \o validateSourceURL(ReqSource, LookupAnswer).err,
          Outputs |-> <<>>]
    ELSE [Success |-> TRUE, Message |-> <<"Would push Chocolatey package">>,
          Error |-> <<>>,
          Outputs |-> [package_path |-> ReqPath, source |-> ReqSource,
                       ver |-> ReqVersion, force |-> ReqForce,
                       timeout |-> ReqTimeout]]

\* C21: the response to a post-publish request with a non-empty API key
\* that did not reach the executor (a validation failure or a dry-run
\* preview) is a function of the request without the key, so two requests
\* that differ only in the key get the same response; and in the response
\* to a successful push the message, package_path, source and version do
\* not contain the key.
C21_ResponseWithoutKey ==
    (pc = "done" /\ ReqPostPublish /\ ReqKey # <<>>) =>
        /\ calls = <<>> => resp = KeyFreeResponse
        /\ (calls # <<>> /\ resp.Success) =>
              /\ Len(resp.Message) = 4
              /\ resp.Message[1] = "Successfully pushed Chocolatey package "
              /\ resp.Message[3] = " to "
              /\ ~Contains(resp.Message[2], ReqKey)
              /\ ~Contains(resp.Message[4], ReqKey)
              /\ ~Contains(resp.Outputs.package_path, ReqKey)
              /\ ~Contains(resp.Outputs.source, ReqKey)
              /\ ~Contains(resp.Outputs.ver, ReqKey)

\* A dry run with the key k1 in the config and another key in the
\* environment was answered with the preview, which has no key in it.
C21_Witness ==
    /\ pc = "done"
    /\ ReqPostPublish /\ req.DryRun
    /\ req.Config.api_key = << <<"k", "1">> >>
    /\ envKey = <<"e", "2">>
    /\ resp.Success = TRUE
    /\ resp.Message = <<"Would push Chocolatey package">>
    /\ DOMAIN resp.Outputs = {"package_path", "source", "ver", "force", "timeout"}

(***************************************************************************)
(* Properties of Validate (SpecValidate).                                    *)
(***************************************************************************)
\* The errors of the response, and the fields Validate checks.
ValidateErrors == vcResp.Errors
ValidateFields == {"package_path", "source", "timeout"}
HasError(field) == \E k \in 1..Len(ValidateErrors) : ValidateErrors[k].Field = field
HasErrorWith(field, message) ==
    \E k \in 1..Len(ValidateErrors) :
        ValidateErrors[k] = [Field |-> field, Message |-> message]

\* What the config bag under validation carries.
BagPathMissing == vcConfig.package_path \in { <<>>, << <<>> >> }
BagTimeoutNotPositive == vcConfig.timeout # <<>> /\ vcConfig.timeout[1] <= 0
BagSourcePlainHTTP ==
    vcConfig.source = << <<"h", "t", "t", "p", ":", "/", "/", "e", "v", "i",
                           "l", ".", "c", "o", "m", "/">> >>

\* C22: Validate on a bag with a missing or empty package_path returns
\* valid=false with the error (package_path, "package path is required");
\* the response is valid exactly when it holds no error for package_path,
\* source or timeout, it holds errors for no other field and at most one per
\* field, and a failing field is reported whatever the fields before it did:
\* a timeout that is not positive gets its error and a plain-http source
\* gets one too, also when package_path is in error.
C22_ValidateReportsAllFields ==
    called =>
        /\ BagPathMissing =>
              /\ vcResp.Valid = FALSE
              /\ HasErrorWith("package_path", <<"package path is required">>)
        /\ vcResp.Valid <=> (\A f \in ValidateFields : ~HasError(f))
        /\ \A k \in 1..Len(ValidateErrors) : ValidateErrors[k].Field \in ValidateFields
        /\ \A j, k \in 1..Len(ValidateErrors) :
              ValidateErrors[j].Field = ValidateErrors[k].Field => j = k
        /\ BagTimeoutNotPositive =>
              HasErrorWith("timeout", <<"timeout must be a positive integer">>)
        /\ BagSourcePlainHTTP => HasError("source")

\* Validate of a bag without package_path, with a plain-http source and
\* timeout 0 returned the three errors, in the order of the checks.
C22_Witness ==
    /\ called
    /\ vcConfig.package_path = <<>>
    /\ BagSourcePlainHTTP
    /\ vcConfig.timeout = <<0>>
    /\ vcResp.Valid = FALSE
    /\ Len(ValidateErrors) = 3
    /\ ValidateErrors[1] = [Field |-> "package_path", Message |-> <<"package path is required">>]
    /\ ValidateErrors[2].Field = "source"
    /\ ValidateErrors[3].Field = "timeout"

(***************************************************************************)
(* The order of the rules of validatePackagePath (SpecPath).                 *)
(***************************************************************************)
\* The file name of the path, its last segment, is not made of letters,
\* digits, ".", "_" and "-" after a first letter or digit.
BadFileName ==
    LET name == PathSegs[Len(PathSegs)]
    IN  \/ name = <<>>
        \/ name[1] \in {".", "_", "-"}
        \/ \E i \in 1..Len(name) : ~SafeChar(name[i])

\* C23: validatePackagePath returns the error of the first rule that fails,
\* in the order non-empty, at most 512 characters, no traversal, .nupkg
\* suffix, filename pattern: the empty path gets the empty error; a path
\* over 512 characters gets the too-long error whatever else is wrong with
\* it; a shorter path that climbs out gets the traversal error whatever its
\* suffix; a path that passed the traversal rule and lacks the suffix gets
\* the suffix error whatever its file name; the filename error is given
\* only to paths that passed the four rules before it; and the path of
\* exactly 512 characters that satisfies the other rules is accepted.
C23_FirstFailingRule ==
    called =>
        /\ vpPath = <<>> <=> vpErr = ErrPathEmpty
        /\ Len(vpPath) > 512 <=> vpErr = ErrPathTooLong
        /\ (vpPath # <<>> /\ Len(vpPath) <= 512 /\ ClimbsOut)
              => vpErr = ErrPathTraversal
        /\ (vpPath # <<>> /\ Len(vpPath) <= 512 /\ vpErr # ErrPathTraversal)
              => /\ ~EndsNupkgAnyCase <=> vpErr = ErrPathSuffix
                 /\ (EndsNupkgAnyCase /\ BadFileName) <=> vpErr = ErrPathFilename
                 /\ (EndsNupkgAnyCase /\ ~BadFileName) <=> vpErr = NoError
        /\ vpPath = Repeat("a", 506) \o <<".", "n", "u", "p", "k", "g">>
              => vpErr = NoError
        /\ vpPath = <<".", ".", "/", "p", ".", "z", "i", "p">>
              => vpErr = ErrPathTraversal

\* The path ../aaa...a.nupkg of 521 characters has been rejected as too
\* long, not as a traversal.
C23_Witness ==
    /\ called
    /\ Len(vpPath) = 521
    /\ SubSeq(vpPath, 1, 3) = <<".", ".", "/">>
    /\ vpErr = ErrPathTooLong

(***************************************************************************)
(* The order of the stages and of the checks of Execute (Spec).              *)
(***************************************************************************)
\* The steps from one stage of a request to the next, a check having
\* passed, and the steps on which Execute returns.
StageSteps ==
    { <<"idle", "received">>, <<"received", "config-resolved">>,
      <<"config-resolved", "path-substituted">>,
      <<"path-substituted", "path-ok">>, <<"path-ok", "url-ok">>,
      <<"url-ok", "validated">>, <<"validated", "dispatched">>,
      <<"done", "idle">> }
ReturnSteps ==
    { <<"config-resolved", "done">>, <<"path-substituted", "done">>,
      <<"path-ok", "done">>, <<"url-ok", "done">>, <<"validated", "done">>,
      <<"dispatched", "done">> }

APIKeyMessage ==
    "API key is required: set api_key in config or CHOCOLATEY_API_KEY environment variable"

\* What a response returned from stage `stage` must be: the failure of the
\* check made at that stage, the dry-run preview, or the outcome of the
\* run.
ReturnedFrom(stage, r) ==
    CASE stage = "config-resolved" ->
            ~ReqPostPublish /\ r.Success = TRUE
      [] stage = "path-substituted" ->
            r.Success = FALSE /\ r.Error[1] = "invalid package path: "
      [] stage = "path-ok" ->
            r.Success = FALSE /\ r.Error[1] = "invalid source URL: "
      [] stage = "url-ok" ->
            r.Success = FALSE /\ r.Error = <<APIKeyMessage>>
      [] stage = "validated" ->
            /\ req.DryRun
            /\ r.Success = TRUE
            /\ r.Message = <<"Would push Chocolatey package">>
      [] stage = "dispatched" ->
            /\ ~req.DryRun
            /\ IF r.Success
               THEN r.Message[1] = "Successfully pushed Chocolatey package "
               ELSE r.Error[1] = "choco push failed: "
      [] OTHER -> FALSE

\* The response to a finished post-publish request is that of the first
\* check that fails, in the order path, source, API key, dry run; and the
\* resolver has not been asked for a request whose path is invalid.
FirstFailureReported ==
    (pc # "idle" /\ ReqPostPublish) =>
        /\ ~ReqPathValid => lookup = None /\ calls = <<>>
        /\ pc = "done" =>
              IF ~ReqPathValid
              THEN resp.Success = FALSE /\ resp.Error[1] = "invalid package path: "
              ELSE IF ~ReqSourceValid
              THEN resp.Success = FALSE /\ resp.Error[1] = "invalid source URL: "
              ELSE IF ReqKey = <<>>
              THEN resp.Success = FALSE /\ resp.Error = <<APIKeyMessage>>
              ELSE IF req.DryRun
              THEN resp.Success = TRUE /\ calls = <<>>
              ELSE Len(calls) = 1

\* C24: a request moves from stage to stage in the order received,
\* config-resolved, path-substituted, path checked, source checked, key
\* checked (validated), dispatched, and returns either from a check that
\* failed, with that check's error, or from the dry-run branch, or with the
\* outcome of the run; the response reports the first check that fails, and
\* the resolver is not asked for a request whose path is invalid.
C24_StagesAndChecksInOrder ==
    /\ [][pc' # pc =>
            \/ <<pc, pc'>> \in StageSteps
            \/ <<pc, pc'>> \in ReturnSteps /\ ReturnedFrom(pc, resp')]_vars
    /\ []FirstFailureReported

\* A request with the traversing path ../pkg.nupkg and no API key was
\* answered with the path error, and the resolver was not asked.
C24_Witness ==
    /\ pc = "done"
    /\ ReqPostPublish
    /\ ReqTemplate = <<".", ".", "/", "p", "k", "g", ".", "n", "u", "p", "k", "g">>
    /\ ReqKey = <<>>
    /\ resp.Success = FALSE
    /\ resp.Error = <<"invalid package path: ",
                      "path traversal detected: cannot use '..' to escape working directory">>
    /\ lookup = None

(***************************************************************************)
(* SpecRelax: a config bag is given to Validate and, in a post-publish dry   *)
(* run, to Execute.                                                          *)
(***************************************************************************)
RelaxRequests ==
    [ Hook : {HookPostPublish},
      Config : [ package_path : ValidatePathOpts,
                 api_key : { << <<"k", "1">> >> },
                 source : { << S_http \o <<":", "/", "/">> \o S_localhost
                               \o <<":", "8", "0", "8", "0", "/">> >>,
                            << S_http \o <<":", "/", "/", "e", "v", "i", "l", ".",
                                           "c", "o", "m", "/">> >> },
                 timeout : { <<>> }, force : { <<>> } ],
      Context : [ Version : { <<"v", "2", ".", "1", ".", "0">> },
                  TagName : { <<"v", "2", ".", "1", ".", "0">>,
                              <<".", ".", "/", ".", ".">> } ],
      DryRun : {TRUE} ]

InitRelax ==
    /\ cmdExecutor = "nil"
    /\ pc = "config-resolved"
    /\ req \in RelaxRequests
    /\ envKey = <<>>
    /\ cfg = parseConfig(req.Config, envKey)
    /\ version = None /\ packagePath = None /\ lookup = None
    /\ calls = <<>> /\ proc = "none" /\ run = None
    /\ resp = None /\ nresp = 0 /\ retErr = "nil"
    /\ vcConfig = req.Config /\ vcAnswer = None /\ vcResp = None
    /\ PathIdle /\ URLIdle /\ IPIdle /\ called = FALSE

NextRelax ==
    \/ CallValidate
    \/ Substitute \/ ValidatePath \/ ValidateURL \/ CheckAPIKey \/ DryRunPreview

SpecRelax == InitRelax /\ [][NextRelax]_vars

\* The package_path of the bag, "" when it has none.
BagPath ==
    IF vcConfig.package_path # <<>> THEN vcConfig.package_path[1] ELSE <<>>
\* The path holds one of the placeholder tokens.
HasPlaceholder ==
    \/ Contains(BagPath, <<"{", "{", "v", "e", "r", "s", "i", "o", "n", "}", "}">>)
    \/ Contains(BagPath, <<"{", "{", "t", "a", "g", "}", "}">>)
\* The path ends in .nupkg in some capitalization.
BagPathEndsNupkg ==
    /\ Len(BagPath) >= 6
    /\ LET e == SubSeq(BagPath, Len(BagPath) - 5, Len(BagPath))
       IN  /\ e[1] = "."
           /\ e[2] \in {"n", "N"} /\ e[3] \in {"u", "U"} /\ e[4] \in {"p", "P"}
           /\ e[5] \in {"k", "K"} /\ e[6] \in {"g", "G"}

\* C25: for a package_path with a placeholder Validate reports a
\* package_path error exactly when the path lacks the .nupkg suffix in
\* every capitalization, and then the suffix message: neither the length
\* nor a traversal nor the characters of the file name count, and
\* mypackage.{{version}}.nupkg gets no error.  For a non-empty path
\* without "{{" Validate reports what validatePackagePath returns.  Execute
\* applies validatePackagePath to the path after substitution and answers
\* with its error.
C25_TemplateRelaxation ==
    /\ (called /\ HasPlaceholder) =>
          /\ HasError("package_path") <=> ~BagPathEndsNupkg
          /\ HasError("package_path") =>
                HasErrorWith("package_path", <<"package path must end with .nupkg">>)
    /\ (called /\ BagPath = <<"m", "y", "p", "a", "c", "k", "a", "g", "e", ".", "{", "{",
                               "v", "e", "r", "s", "i", "o", "n", "}", "}", ".", "n",
                               "u", "p", "k", "g">>)
          => ~HasError("package_path")
    /\ (called /\ BagPath # <<>> /\ ~Contains(BagPath, <<"{", "{">>)) =>
          IF validatePackagePath(BagPath) = NoError
          THEN ~HasError("package_path")
          ELSE HasErrorWith("package_path", validatePackagePath(BagPath))
    /\ pc = "done" =>
          IF validatePackagePath(ReqPath) = NoError
          THEN resp.Success \/ resp.Error[1] # "invalid package path: "
          ELSE /\ resp.Success = FALSE
               /\ resp.Error = <<"invalid package path: ">> \o validatePackagePath(ReqPath)

\* The template ../{{tag}}.NUPKG passed Validate without a package_path
\* error, and Execute rejected the path it became, ../v2.1.0.NUPKG, as a
\* traversal.
C25_Witness ==
    /\ called
    /\ pc = "done"
    /\ BagPath = <<".", ".", "/", "{", "{", "t", "a", "g", "}", "}", ".", "N", "U",
                   "P", "K", "G">>
    /\ ~HasError("package_path")
    /\ packagePath = <<".", ".", "/", "v", "2", ".", "1", ".", "0", ".", "N", "U",
                       "P", "K", "G">>
    /\ resp.Error = <<"invalid package path: ",
                      "path traversal detected: cannot use '..' to escape working directory">>

(***************************************************************************)
(* SpecConc: two Execute calls on one plugin, their steps interleaved.       *)
(* Here pc, req, cfg, version, packagePath, lookup, calls, run, resp, nresp  *)
(* and retErr hold one value per call (they are the locals of Execute and    *)
(* pushPackage, one set per goroutine); cmdExecutor, the one field of the    *)
(* plugin, and the environment are shared.  The plugin a host loads has a    *)
(* nil cmdExecutor, so every call runs on a RealCommandExecutor of its own.  *)
(***************************************************************************)
Goroutines == {1, 2}

ConcRequests ==
    [ Hook : {HookPostPublish},
      Config : [ package_path : { << T_pkg \o <<".">> \o S_versionPH \o S_nupkg >>,
                                  << S_dotdot \o <<"/">> \o T_pkg \o S_nupkg >> },
                 api_key : APIKeyOpts,
                 source : { <<>> }, timeout : { <<>> }, force : { <<>> } ],
      Context : [ Version : { <<"v", "2", ".", "1", ".", "0">> },
                  TagName : { <<"v", "2", ".", "1", ".", "0">> } ],
      DryRun : BOOLEAN ]
    \cup
    [ Hook : Hooks,
      Config : [ package_path : { << T_pkg \o <<".", "1", ".", "0", ".", "0">> \o S_nupkg >> },
                 api_key : { << <<"k", "1">> >> },
                 source : { << S_http \o <<":", "/", "/">> \o S_localhost
                               \o <<":", "8", "0", "8", "0", "/">> >> },
                 timeout : { <<600>> }, force : { <<TRUE>> } ],
      Context : [ Version : { <<"1", ".", "0", ".", "0">> },
                  TagName : { <<"v", "2", ".", "1", ".", "0">> } ],
      DryRun : {FALSE} ]

InitConc ==
    /\ cmdExecutor = "nil"
    /\ envKey \in EnvKeys
    /\ req \in [Goroutines -> ConcRequests]
    /\ pc = [i \in Goroutines |-> "received"]
    /\ cfg = [i \in Goroutines |-> None]
    /\ version = [i \in Goroutines |-> None]
    /\ packagePath = [i \in Goroutines |-> None]
    /\ lookup = [i \in Goroutines |-> None]
    /\ calls = [i \in Goroutines |-> <<>>]
    /\ run = [i \in Goroutines |-> None]
    /\ resp = [i \in Goroutines |-> None]
    /\ nresp = [i \in Goroutines |-> 0]
    /\ retErr = [i \in Goroutines |-> "nil"]
    /\ proc = "none"
    /\ PathIdle /\ URLIdle /\ IPIdle /\ ValidateIdle /\ called = FALSE

\* What no step of a call writes: the plugin's field, the requests and the
\* environment.
concFixed == <<cmdExecutor, req, envKey, proc, pureVars>>

\* Call i returns `r` and a nil error.
RespondOf(i, r) ==
    /\ resp' = [resp EXCEPT ![i] = r]
    /\ nresp' = [nresp EXCEPT ![i] = @ + 1]
    /\ retErr' = [retErr EXCEPT ![i] = "nil"]
    /\ pc' = [pc EXCEPT ![i] = "done"]

\* Call i goes on to `stage` without returning.
GoOn(i, stage) ==
    /\ pc' = [pc EXCEPT ![i] = stage]
    /\ UNCHANGED <<resp, nresp, retErr>>

\* A plugin that keeps the parsed config in a field of its own, which
\* every call in progress then reads.
ParseConfigOf_SharedField(i) ==
    /\ pc[i] = "received"
    /\ cfg' = [j \in Goroutines |-> parseConfig(req[i].Config, envKey)]
    /\ GoOn(i, "config-resolved")
    /\ UNCHANGED <<concFixed, version, packagePath, lookup, calls, run>>

\* cfg := p.parseConfig(req.Config), in call i.
ParseConfigOf(i) ==
    /\ pc[i] = "received"
    /\ cfg' = [cfg EXCEPT ![i] = parseConfig(req[i].Config, envKey)]
    /\ GoOn(i, "config-resolved")
    /\ UNCHANGED <<concFixed, version, packagePath, lookup, calls, run>>

\* The default branch of the switch on req.Hook, in call i.
UnhandledHookOf(i) ==
    /\ pc[i] = "config-resolved"
    /\ req[i].Hook # HookPostPublish
    /\ RespondOf(i, RespUnhandled(req[i].Hook))
    /\ UNCHANGED <<concFixed, cfg, version, packagePath, lookup, calls, run>>

\* pushPackage in call i: the placeholders are resolved.
SubstituteOf(i) ==
    /\ pc[i] = "config-resolved"
    /\ req[i].Hook = HookPostPublish
    /\ version' = [version EXCEPT ![i] = NormalVersion(req[i].Context)]
    /\ packagePath' = [packagePath EXCEPT
                          ![i] = SubstitutePath(cfg[i].PackagePath, req[i].Context)]
    /\ GoOn(i, "path-substituted")
    /\ UNCHANGED <<concFixed, cfg, lookup, calls, run>>

\* pushPackage in call i: validatePackagePath(packagePath).
ValidatePathOf(i) ==
    /\ pc[i] = "path-substituted"
    /\ IF validatePackagePath(packagePath[i]) # NoError
       THEN RespondOf(i, RespInvalidPath(validatePackagePath(packagePath[i])))
       ELSE GoOn(i, "path-ok")
    /\ UNCHANGED <<concFixed, cfg, version, packagePath, lookup, calls, run>>

\* pushPackage in call i: validateSourceURL(cfg.Source).
ValidateURLOf(i) ==
    /\ pc[i] = "path-ok"
    /\ \E answer \in ExecDnsAnswers :
          LET r == validateSourceURL(cfg[i].Source, answer)
          IN  /\ lookup' = [lookup EXCEPT
                               ![i] = [lookedUp |-> r.lookedUp, ips |-> r.ips]]
              /\ IF r.err # NoError
                 THEN RespondOf(i, RespInvalidSource(r.err))
                 ELSE GoOn(i, "url-ok")
    /\ UNCHANGED <<concFixed, cfg, version, packagePath, calls, run>>

\* pushPackage in call i: the API key must be present.
CheckAPIKeyOf(i) ==
    /\ pc[i] = "url-ok"
    /\ IF cfg[i].APIKey = <<>>
       THEN RespondOf(i, RespNoAPIKey)
       ELSE GoOn(i, "validated")
    /\ UNCHANGED <<concFixed, cfg, version, packagePath, lookup, calls, run>>

\* pushPackage in call i: the dry-run branch.
DryRunPreviewOf(i) ==
    /\ pc[i] = "validated"
    /\ req[i].DryRun
    /\ RespondOf(i, RespDryRun(cfg[i], packagePath[i], version[i]))
    /\ UNCHANGED <<concFixed, cfg, version, packagePath, lookup, calls, run>>

\* pushPackage in call i: the arguments are built and Run is called on the
\* executor getExecutor returns.
DispatchOf(i) ==
    /\ pc[i] = "validated"
    /\ ~req[i].DryRun
    /\ calls' = [calls EXCEPT
                    ![i] = Append(@, [executor |-> getExecutor(cmdExecutor),
                                      name |-> S_choco,
                                      args |-> buildPushArgs(cfg[i], packagePath[i]),
                                      deadline |-> cfg[i].Timeout])]
    /\ GoOn(i, "dispatched")
    /\ UNCHANGED <<concFixed, cfg, version, packagePath, lookup, run>>

\* pushPackage in call i: Run returns and its result becomes the response.
CompleteOf(i) ==
    /\ pc[i] = "dispatched"
    /\ \E r \in RunResults(getExecutor(cmdExecutor), cfg[i].Timeout) :
          /\ run' = [run EXCEPT ![i] = r]
          /\ IF r.err # NoError
             THEN RespondOf(i, RespPushFailed(r.err, r.output))
             ELSE RespondOf(i, RespPushed(cfg[i], packagePath[i], version[i], r.output))
    /\ UNCHANGED <<concFixed, cfg, version, packagePath, lookup, calls>>

NextConc ==
    \E i \in Goroutines :
        \/ ParseConfigOf(i) \/ UnhandledHookOf(i) \/ SubstituteOf(i)
        \/ ValidatePathOf(i) \/ ValidateURLOf(i) \/ CheckAPIKeyOf(i)
        \/ DryRunPreviewOf(i) \/ DispatchOf(i) \/ CompleteOf(i)

SpecConc == InitConc /\ [][NextConc]_vars

\* Execute on `request` alone, with `env` as CHOCOLATEY_API_KEY, the
\* resolver answering `answer` and Run returning `result`: the response and
\* the invocations issued.
ExecuteAlone(request, env, answer, result) ==
    LET c == parseConfig(request.Config, env)
        ver == NormalVersion(request.Context)
        path == SubstitutePath(c.PackagePath, request.Context)
        u == validateSourceURL(c.Source, answer)
        invocation == [executor |-> "real", name |-> S_choco,
                       args |-> buildPushArgs(c, path), deadline |-> c.Timeout]
    IN  IF request.Hook # HookPostPublish
        THEN [resp |-> RespUnhandled(request.Hook), calls |-> <<>>]
        ELSE IF validatePackagePath(path) # NoError
        THEN [resp |-> RespInvalidPath(validatePackagePath(path)), calls |-> <<>>]
        ELSE IF u.err # NoError
        THEN [resp |-> RespInvalidSource(u.err), calls |-> <<>>]
        ELSE IF c.APIKey = <<>>
        THEN [resp |-> RespNoAPIKey, calls |-> <<>>]
        ELSE IF request.DryRun
        THEN [resp |-> RespDryRun(c, path, ver), calls |-> <<>>]
        ELSE IF result.err # NoError
        THEN [resp |-> RespPushFailed(result.err, result.output),
              calls |-> <<invocation>>]
        ELSE [resp |-> RespPushed(c, path, ver, result.output),
              calls |-> <<invocation>>]

\* The answer the resolver gave to call i, and what call i would produce
\* alone under that answer and the result its Run returned.
AnswerOf(i) ==
    IF lookup[i] # None /\ lookup[i].lookedUp /\ lookup[i].ips # <<>>
    THEN [ok |-> TRUE, ips |-> lookup[i].ips]
    ELSE DnsFailure
AloneOf(i) == ExecuteAlone(req[i], envKey, AnswerOf(i), run[i])

\* C26: under every interleaving of the steps of two Execute calls on one
\* plugin, the response of each finished call and the invocations it issued
\* are those of the same request served alone under the same environment,
\* resolver answer and Run result; each call returns once; and no step
\* writes the plugin's cmdExecutor field.
C26_NoInterference ==
    /\ [](\A i \in Goroutines :
             pc[i] = "done" =>
                /\ resp[i] = AloneOf(i).resp
                /\ calls[i] = AloneOf(i).calls
                /\ nresp[i] = 1)
    /\ [][cmdExecutor' = cmdExecutor]_vars

\* Two calls ran to their ends with different configs: one pushed
\* pkg.2.1.0.nupkg with the key k1, the other was answered with the
\* traversal error of ../pkg.nupkg.
C26_Witness ==
    /\ pc = [i \in Goroutines |-> "done"]
    /\ Len(calls[1]) = 1
    /\ calls[1][1].args[2] = <<"p", "k", "g", ".", "2", ".", "1", ".", "0", ".",
                               "n", "u", "p", "k", "g">>
    /\ calls[1][1].args[4] = <<"k", "1">>
    /\ resp[1].Success = TRUE
    /\ calls[2] = <<>>
    /\ resp[2].Error = <<"invalid package path: ",
                         "path traversal detected: cannot use '..' to escape working directory">>

====
